---- MODULE Spec2Model ----
(***************************************************************************)
(* Model of the SVB production dashboard (SVB_MVP/app.py, list_tab.py,     *)
(* stats.py): text normalisation, episode parsing, header reconciliation,  *)
(* episode explosion, image resolution and the list-view aggregation.      *)
(*                                                                         *)
(* Python str values are sequences of characters, a character being a      *)
(* one-symbol TLA+ string; a precomposed accented letter is written        *)
(* "o+acute" and its combining mark "+acute".  Python values that are not   *)
(* str are sequences whose first element is a tag ("<NaN>", "<None>").      *)
(***************************************************************************)
EXTENDS Integers, Sequences, FiniteSets, TLC

VARIABLES
    pc,        \* position of the run
    txt,       \* text given to the text functions
    epList,    \* result of parse_episode_field
    key,       \* result of norm_key
    key2,      \* result of norm_key applied to key
    status_kind, \* result of _status_kind
    csv,       \* lines of the CSV file, each a sequence of cells
    df,        \* table returned by load_dataframe
    all_eps,   \* result of detect_all_numeric_episodes
    base_exp,  \* result of build_base_exp
    exc,       \* name of the exception that ended the run, "" if none
    tasks,     \* result of build_open_tasks
    sel,       \* values of the filter widgets of the list tab
    agg,       \* aggregated rows of render_list_tab
    img_idx,   \* image index: (key, path) pairs in insertion order
    file_id,   \* file_id argument of find_image_for
    img_dir,   \* listing of the image directory
    char_name, \* name argument of find_image_for
    img_path,  \* result of find_image_for
    cache,     \* entries of the cache of load_images_index
    ov,        \* result of overall_stats
    exp,       \* the exploded table after the filters of the sidebar
    ep_df      \* result of episode_completion

textVars == <<txt, epList, key, key2, status_kind>>

loadVars == <<csv, df, all_eps, base_exp>>

listVars == <<tasks, sel, agg>>

imgVars == <<img_dir, img_idx, file_id, char_name, img_path, cache>>

statsVars == <<ov, exp, ep_df>>

vars == <<pc, exc, textVars, loadVars, listVars, imgVars, statsVars>>

(* Characters                                                              *)

AsciiLower == {"a","b","c","d","e","f","g","h","i","j","k","l","m",
               "n","o","p","q","r","s","t","u","v","w","x","y","z"}

AsciiDigit == {"0","1","2","3","4","5","6","7","8","9"}

\* str.lower() on one character
ToLower ==
    ("A" :> "a") @@ ("B" :> "b") @@ ("C" :> "c") @@ ("D" :> "d") @@
    ("E" :> "e") @@ ("F" :> "f") @@ ("G" :> "g") @@ ("H" :> "h") @@
    ("I" :> "i") @@ ("J" :> "j") @@ ("K" :> "k") @@ ("L" :> "l") @@
    ("M" :> "m") @@ ("N" :> "n") @@ ("O" :> "o") @@ ("P" :> "p") @@
    ("Q" :> "q") @@ ("R" :> "r") @@ ("S" :> "s") @@ ("T" :> "t") @@
    ("U" :> "u") @@ ("V" :> "v") @@ ("W" :> "w") @@ ("X" :> "x") @@
    ("Y" :> "y") @@ ("Z" :> "z") @@
    ("A+acute" :> "a+acute") @@ ("E+acute" :> "e+acute") @@
    ("I+acute" :> "i+acute") @@ ("O+acute" :> "o+acute") @@
    ("E+circ" :> "e+circ") @@ ("A+tilde" :> "a+tilde") @@
    ("C+cedil" :> "c+cedil")

\* str.upper() on one character
ToUpper ==
    ("a" :> "A") @@ ("b" :> "B") @@ ("c" :> "C") @@ ("d" :> "D") @@
    ("e" :> "E") @@ ("f" :> "F") @@ ("g" :> "G") @@ ("h" :> "H") @@
    ("i" :> "I") @@ ("j" :> "J") @@ ("k" :> "K") @@ ("l" :> "L") @@
    ("m" :> "M") @@ ("n" :> "N") @@ ("o" :> "O") @@ ("p" :> "P") @@
    ("q" :> "Q") @@ ("r" :> "R") @@ ("s" :> "S") @@ ("t" :> "T") @@
    ("u" :> "U") @@ ("v" :> "V") @@ ("w" :> "W") @@ ("x" :> "X") @@
    ("y" :> "Y") @@ ("z" :> "Z") @@
    ("a+acute" :> "A+acute") @@ ("e+acute" :> "E+acute") @@
    ("i+acute" :> "I+acute") @@ ("o+acute" :> "O+acute") @@
    ("e+circ" :> "E+circ") @@ ("a+tilde" :> "A+tilde") @@
    ("c+cedil" :> "C+cedil")

\* unicodedata.normalize("NFD", .) on one character
Decomposition ==
    ("a+acute" :> <<"a", "+acute">>) @@ ("e+acute" :> <<"e", "+acute">>) @@
    ("i+acute" :> <<"i", "+acute">>) @@ ("o+acute" :> <<"o", "+acute">>) @@
    ("e+circ" :> <<"e", "+circ">>) @@ ("a+tilde" :> <<"a", "+tilde">>) @@
    ("c+cedil" :> <<"c", "+cedil">>) @@
    ("A+acute" :> <<"A", "+acute">>) @@ ("E+acute" :> <<"E", "+acute">>) @@
    ("I+acute" :> <<"I", "+acute">>) @@ ("O+acute" :> <<"O", "+acute">>) @@
    ("E+circ" :> <<"E", "+circ">>) @@ ("A+tilde" :> <<"A", "+tilde">>) @@
    ("C+cedil" :> <<"C", "+cedil">>)

\* unicodedata.combining(ch) # 0
Combining == {"+acute", "+circ", "+tilde", "+cedil"}

\* characters removed by str.strip()
Whitespace == {" ", "\t"}

LowerCh(c) == IF c \in DOMAIN ToLower THEN ToLower[c] ELSE c

UpperCh(c) == IF c \in DOMAIN ToUpper THEN ToUpper[c] ELSE c

(* Python str operations                                                   *)

RECURSIVE Flatten(_)
Flatten(ss) == IF ss = <<>> THEN <<>> ELSE Head(ss) \o Flatten(Tail(ss))

lower(s) == [i \in 1..Len(s) |-> LowerCh(s[i])]

upper(s) == [i \in 1..Len(s) |-> UpperCh(s[i])]

RECURSIVE lstrip(_)
lstrip(s) ==
    IF s # <<>> /\ Head(s) \in Whitespace THEN lstrip(Tail(s)) ELSE s

RECURSIVE rstrip(_)
rstrip(s) ==
    IF s # <<>> /\ s[Len(s)] \in Whitespace
    THEN rstrip(SubSeq(s, 1, Len(s) - 1)) ELSE s

strip(s) == rstrip(lstrip(s))

startswith(s, p) == Len(s) >= Len(p) /\ SubSeq(s, 1, Len(p)) = p

endswith(s, p) ==
    Len(s) >= Len(p) /\ SubSeq(s, Len(s) - Len(p) + 1, Len(s)) = p

\* s[n:]
SliceFrom(s, n) == SubSeq(s, n + 1, Len(s))

\* p in s
Contains(s, p) ==
    \E i \in 0..(Len(s) - Len(p)) : SubSeq(s, i + 1, i + Len(p)) = p

NFD(s) ==
    Flatten([i \in 1..Len(s) |->
        IF s[i] \in DOMAIN Decomposition THEN Decomposition[s[i]]
        ELSE <<s[i]>>])

\* the characters of s, concatenated into one TLA+ string
RECURSIVE Str(_)
Str(s) == IF s = <<>> THEN "" ELSE Head(s) \o Str(Tail(s))

(* app.py helpers                                                          *)

None == <<"<None>">>

NaN == <<"<NaN>">>

_normalize_text(s) ==
    IF \/ s = None
       \/ s = <<>>
       \/ (Len(s) = 2 /\ s[1] \in {"int", "float"} /\ s[2] = 0)
    THEN <<>>
    ELSE SelectSeq(NFD(lower(strip(s))), LAMBDA ch : ch \notin Combining)

norm_key_nofilter(s) == _normalize_text(s)

norm_key(s) ==
    SelectSeq(_normalize_text(s), LAMBDA ch : ch \in AsciiLower \cup AsciiDigit)


(* Episode field parsing (app.py)                                          *)

\* a Python int / a Python str as an element of a heterogeneous list
PyInt(n) == <<"int", n>>

PyStr(s) == <<"str", s>>

IsInt(x) == x[1] = "int"

IsStr(x) == x[1] = "str"

\* a Python float of integral value, as read from a numeric column
PyFloat(n) == <<"float", n>>

IsNumber(v) == Len(v) = 2 /\ v[1] \in {"int", "float"}

DigitChars == <<"0", "1", "2", "3", "4", "5", "6", "7", "8", "9">>

\* str(n) for an int n >= 0
RECURSIVE IntStr(_)
IntStr(n) ==
    IF n < 10 THEN <<DigitChars[n + 1]>>
    ELSE IntStr(n \div 10) \o <<DigitChars[(n % 10) + 1]>>

\* str(v) for a cell value
str(v) ==
    IF v = NaN THEN <<"n", "a", "n">>
    ELSE IF v = None THEN <<"N", "o", "n", "e">>
    ELSE IF IsNumber(v)
    THEN IntStr(v[2]) \o (IF v[1] = "float" THEN <<".", "0">> ELSE <<>>)
    ELSE v

\* "not v" for a cell value
Falsy(v) == v = None \/ v = <<>> \/ (IsNumber(v) /\ v[2] = 0)

DigitVal ==
    ("0" :> 0) @@ ("1" :> 1) @@ ("2" :> 2) @@ ("3" :> 3) @@ ("4" :> 4) @@
    ("5" :> 5) @@ ("6" :> 6) @@ ("7" :> 7) @@ ("8" :> 8) @@ ("9" :> 9)

\* int(n) for a run of decimal digits
RECURSIVE int(_)
int(ds) ==
    IF ds = <<>> THEN 0
    ELSE 10 * int(SubSeq(ds, 1, Len(ds) - 1)) + DigitVal[ds[Len(ds)]]

\* re.findall(r"\d+", s), scanning left to right; cur is the run being read
RECURSIVE findall_digits(_, _)
findall_digits(s, cur) ==
    IF s = <<>> THEN (IF cur = <<>> THEN <<>> ELSE <<cur>>)
    ELSE IF Head(s) \in AsciiDigit
         THEN findall_digits(Tail(s), Append(cur, Head(s)))
         ELSE (IF cur = <<>> THEN <<>> ELSE <<cur>>)
              \o findall_digits(Tail(s), <<>>)

Todos == <<"T", "o", "d", "o", "s">>

todos == <<"t", "o", "d", "o", "s">>

parse_episode_field_nostrip(ep_field) ==
    IF Falsy(ep_field) THEN <<>>
    ELSE IF strip(str(ep_field)) = <<>> THEN <<>>
    ELSE IF lower(str(ep_field)) = todos THEN <<PyStr(Todos)>>
    ELSE LET runs == findall_digits(strip(str(ep_field)), <<>>)
         IN  [i \in 1..Len(runs) |-> PyInt(int(runs[i]))]

RECURSIVE DropRepeats(_)
DropRepeats(l) ==
    IF l = <<>> THEN <<>>
    ELSE LET init == DropRepeats(SubSeq(l, 1, Len(l) - 1))
         IN  IF \E i \in 1..Len(init) : init[i] = l[Len(l)] THEN init
             ELSE Append(init, l[Len(l)])

parse_episode_field_dedup(ep_field) ==
    IF Falsy(ep_field) THEN <<>>
    ELSE IF strip(str(ep_field)) = <<>> THEN <<>>
    ELSE IF lower(strip(str(ep_field))) = todos THEN <<PyStr(Todos)>>
    ELSE LET runs == findall_digits(strip(str(ep_field)), <<>>)
         IN  DropRepeats([i \in 1..Len(runs) |-> PyInt(int(runs[i]))])

parse_episode_field(ep_field) ==
    IF Falsy(ep_field) THEN <<>>
    ELSE LET ep == strip(str(ep_field))
         IN  IF ep = <<>> THEN <<>>
             ELSE IF lower(ep) = todos THEN <<PyStr(Todos)>>
             ELSE LET runs == findall_digits(ep, <<>>)
                  IN  [i \in 1..Len(runs) |-> PyInt(int(runs[i]))]

(* Specification of the text functions: an input text is drawn, then one   *)
(* of the functions is applied to it.                                      *)

MaxTokens == 3

Example101 ==
    <<"1","0","1",","," ","1","0","2"," ","e"," ","1","1","3">>

TextTokens ==
    { Todos, <<"t","O","D","O","S">>, <<"T","o+acute","d","o","s">>,
      <<" ">>, <<"1">>, <<"0">>, <<"2","1">>, <<",">>, <<"e">>, <<"A">>,
      <<"+acute">>, <<"_">>, <<"E+circ">>, Example101 }

RECURSIVE TokenSeqs(_)
TokenSeqs(n) ==
    IF n = 0 THEN {<<>>}
    ELSE LET shorter == TokenSeqs(n - 1)
         IN  shorter \cup {t \o s : t \in TextTokens, s \in shorter}

Texts == TokenSeqs(MaxTokens)

NoTable == [columns |-> <<>>, data |-> <<>>]

LoadIdle ==
    /\ csv = <<>>
    /\ df = NoTable
    /\ all_eps = <<>>
    /\ base_exp = NoTable

\* a path that is not a directory
NoDir == [is_dir |-> FALSE, files |-> <<>>]

NoFilters ==
    [kinds |-> {}, eps |-> {}, etapas |-> {}, resps |-> {}, q |-> <<>>]

ListIdle ==
    /\ tasks = <<>>
    /\ sel = NoFilters
    /\ agg = <<>>

\* no statistics computed
NoStats == [total |-> 0]

StatsIdle == ov = NoStats /\ exp = NoTable /\ ep_df = <<>>

ImgIdle ==
    /\ img_dir = NoDir
    /\ img_idx = <<>>
    /\ file_id = <<>>
    /\ char_name = <<>>
    /\ img_path = <<>>
    /\ cache = {}

InitText ==
    /\ pc = "input"
    /\ txt \in Texts
    /\ epList = <<>>
    /\ key = <<>>
    /\ key2 = <<>>
    /\ status_kind = ""
    /\ exc = ""
    /\ LoadIdle
    /\ ListIdle
    /\ ImgIdle
    /\ StatsIdle

ParseEpisode ==
    /\ pc = "input"
    /\ epList' = parse_episode_field(txt)
    /\ pc' = "parsed"
    /\ UNCHANGED <<txt, key, key2, status_kind,
                   exc, loadVars, listVars, imgVars, statsVars>>

NormKey ==
    /\ pc = "input"
    /\ key' = norm_key(txt)
    /\ pc' = "normed"
    /\ UNCHANGED <<txt, epList, key2, status_kind,
                   exc, loadVars, listVars, imgVars, statsVars>>

NormKeyAgain ==
    /\ pc = "normed"
    /\ key2' = norm_key(key)
    /\ pc' = "renormed"
    /\ UNCHANGED <<txt, epList, key, status_kind,
                   exc, loadVars, listVars, imgVars, statsVars>>

NextText == ParseEpisode \/ NormKey \/ NormKeyAgain

SpecText == InitText /\ [][NextText]_vars

(* Claims about the text functions                                         *)

\* the text is the wildcard as the code reads it: "todos" once surrounding
\* whitespace is removed and the text is lowercased
IsTodosText(s) == ~Falsy(s) /\ lower(strip(str(s))) = todos

\* C2 (as stated): every text whose normalized form (case, diacritics and
\* surrounding whitespace ignored) equals the wildcard keyword parses to the
\* one-element list ["ALL"].
C2_AsStated ==
    (pc = "parsed" /\ _normalize_text(txt) = todos)
        => epList = <<PyStr(<<"A", "L", "L">>)>>

\* C2 (amended): parse_episode_field returns exactly the one-element list
\* ["Todos"] for the texts that equal "todos" after surrounding whitespace is
\* removed and the text is lowercased, and for no other text; diacritics are
\* not ignored.
C2_TodosSentinel ==
    pc = "parsed" => (IsTodosText(txt) <=> epList = <<PyStr(Todos)>>)

C2_Witness ==
    /\ pc = "parsed"
    /\ txt = <<" ">> \o <<"t", "O", "D", "O", "S">>
    /\ epList = <<PyStr(Todos)>>

\* start positions of the maximal runs of decimal digits of s
RunStarts(s) ==
    {i \in 1..Len(s) :
        s[i] \in AsciiDigit /\ (i = 1 \/ s[i - 1] \notin AsciiDigit)}

\* last position of the maximal run of digits that starts at i
RunEnd(s, i) ==
    CHOOSE j \in i..Len(s) :
        /\ \A k \in i..j : s[k] \in AsciiDigit
        /\ (j = Len(s) \/ s[j + 1] \notin AsciiDigit)

\* the number written in decimal at positions i..j of s
RECURSIVE DecimalValue(_, _, _)
DecimalValue(s, i, j) ==
    IF i > j THEN 0
    ELSE DigitVal[s[i]] * (10 ^ (j - i)) + DecimalValue(s, i + 1, j)

\* the start of the k-th run, in order of appearance
KthStart(s, k) ==
    CHOOSE i \in RunStarts(s) :
        Cardinality({h \in RunStarts(s) : h < i}) = k - 1

\* C3: for a text that is not the wildcard the result is the list of the
\* integers of all maximal runs of decimal digits, in order of appearance,
\* duplicates kept; an empty or whitespace-only text gives [].
C3_DigitRuns ==
    (pc = "parsed" /\ ~IsTodosText(txt)) =>
        /\ Len(epList) = Cardinality(RunStarts(txt))
        /\ \A k \in 1..Len(epList) :
              epList[k] =
                 PyInt(DecimalValue(txt, KthStart(txt, k),
                                    RunEnd(txt, KthStart(txt, k))))
        /\ (strip(txt) = <<>> => epList = <<>>)

C3_Witness ==
    /\ pc = "parsed"
    /\ txt = Example101 \o <<",">> \o <<"1">>
    /\ epList = <<PyInt(101), PyInt(102), PyInt(113), PyInt(1)>>

\* C5: applying norm_key to a key gives the same key, and a key contains only
\* characters of [a-z0-9].
C5_NormKeyIdempotent ==
    /\ pc \in {"normed", "renormed"} =>
          \A i \in 1..Len(key) : key[i] \in AsciiLower \cup AsciiDigit
    /\ pc = "renormed" => key2 = key

C5_Witness ==
    /\ pc = "renormed"
    /\ txt = <<"+acute">> \o <<" ">> \o <<"E+circ">>
    /\ key = <<"e">>
    /\ key2 = <<"e">>

(* Internal column names (app.py) and the header spellings of the newer    *)
(* CSV layout that load_dataframe recognizes                               *)

COL_EP ==
    <<"E","p","i","s","o+acute","d","i","o">>

COL_NAME ==
    <<"N","o","m","e"," ","d","o"," ","p","e","r","o","s","n","a","g","e","m">>

COL_FILE_ID ==
    <<"I","D"," ","d","o"," ","A","r","q","u","i","v","o">>

COL_RIG_LINK ==
    <<"L","i","n","k"," ","p","a","r","a"," ","b","a","i","x","a","r"," ","o"," ","m","o","d","e","l","o"," ","R","i","g","a","d","o">>

COL_SYNCSKETCH ==
    <<"L","i","n","k"," ","d","o"," ","S","y","n","c","S","k","e","t","c","h">>

COL_CONCEPT_LINK ==
    <<"L","i","n","k"," ","p","a","r","a"," ","b","a","i","x","a","r"," ","o"," ","m","o","d","e","l","o"," ","C","e","o","n","c","e","p","t"," ","v","e","t","o","r","i","z","a","d","o">>

COL_URG_CONCEPT ==
    <<"U","R","G","E+circ","N","C","I","A">>

COL_STATUS_CONCEPT ==
    <<"S","t","a","t","u","s"," ","d","o"," ","C","o","n","c","e","p","t">>

COL_RESP_CONCEPT ==
    <<"R","e","s","p","o","n","s","a+acute","v","e","l">>

COL_URG_RIG ==
    <<"U","R","G","E+circ","N","C","I","A",".","1">>

COL_STATUS_RIG ==
    <<"S","t","a","t","u","s"," ","d","o"," ","R","i","g">>

COL_RESP_RIG ==
    <<"R","e","s","p","o","n","d","a+acute","v","e","l">>

COL_COMMENTS ==
    <<"C","O","M","E","N","T","A+acute","R","I","O","S">>

COL_DATE_CONCEPT ==
    <<"E","n","t","r","e","g","a"," ","C","o","n","c","e","p","t">>

COL_DATE_RIG ==
    <<"E","n","t","r","e","g","a"," ","R","i","g">>

HDR_EPS ==
    <<"E","P","S">>

HDR_NOME ==
    <<"N","O","M","E">>

HDR_ID ==
    <<"I","D">>

HDR_LINK_RIG ==
    <<"L","I","N","K"," ","R","I","G">>

HDR_SYNC_SKETCH ==
    <<"S","Y","N","C"," ","S","K","E","T","C","H">>

HDR_LINKS_CONCEPT ==
    <<"L","I","N","K","S"," ","C","O","N","C","E","P","T">>

HDR_URGENCIA ==
    <<"U","R","G","E+circ","N","C","I","A">>

HDR_STATUS_CONCEPT ==
    <<"S","T","A","T","U","S"," ","C","O","N","C","E","P","T">>

HDR_STATUS_RIG ==
    <<"S","T","A","T","U","S"," ","R","I","G">>

HDR_RESPONSAVEL ==
    <<"R","E","S","P","O","N","S","A+acute","V","E","L">>

HDR_ENTREGA ==
    <<"E","N","T","R","E","G","A">>

HDR_VETORIZACAO ==
    <<"V","E","T","O","R","I","Z","A","C+cedil","A+tilde","O">>

HDR_MODEL_SHEET ==
    <<"M","O","D","E","L"," ","S","H","E","E","T">>

HDR_PERSONAGEM ==
    <<"P","E","R","S","O","N","A","G","E","M">>

HDR_BANNER ==
    <<"S","e","n","s","a","c","i","o","n","a","l"," ","V","i","l","a"," ","B","a","r","c","a">>

HDR_UNNAMED ==
    <<"U","n","n","a","m","e","d",":"," ">>

OTONIEL ==
    <<"O","T","O","N","I","E","L">>


(* pandas tables: [columns |-> names, data |-> rows], a row being          *)
(* [idx |-> index label, cells |-> one cell per column]; a cell is a str   *)
(* or NaN                                                                  *)

HasColumn(t, c) == \E j \in 1..Len(t.columns) : t.columns[j] = c

ColIndex(t, c) == CHOOSE j \in 1..Len(t.columns) : t.columns[j] = c

Cell(t, r, c) == t.data[r].cells[ColIndex(t, c)]

\* t[c] = f(r) for every row r: replaces the column, or appends it
SetColumn(t, c, f(_)) ==
    IF HasColumn(t, c)
    THEN [t EXCEPT !.data =
            [r \in 1..Len(t.data) |->
                [t.data[r] EXCEPT !.cells[ColIndex(t, c)] = f(r)]]]
    ELSE [columns |-> Append(t.columns, c),
          data |-> [r \in 1..Len(t.data) |->
                      [t.data[r] EXCEPT !.cells = Append(@, f(r))]]]

\* the positions 1..n, in order
Positions(n) == [j \in 1..n |-> j]

\* column name pandas gives to header cell j: an empty cell is "Unnamed: j",
\* the k-th repetition of a name gets the suffix ".k"
MangledName(line, j) ==
    IF line[j] = <<>> THEN HDR_UNNAMED \o IntStr(j - 1)
    ELSE LET k == Cardinality({i \in 1..(j - 1) : line[i] = line[j]})
         IN  IF k = 0 THEN line[j] ELSE line[j] \o <<".">> \o IntStr(k)

\* a cell text that pandas converts to an integer
IsIntText(c) ==
    strip(c) # <<>> /\ \A i \in 1..Len(strip(c)) : strip(c)[i] \in AsciiDigit

\* the value pandas gives to the cell text c of a column of the given cell
\* texts: an empty cell reads as NaN; a column whose other cells are all
\* integers is an int column, and a float column when it has a NaN
ParsedCell(col, c) ==
    IF c = <<>> THEN NaN
    ELSE IF \A i \in 1..Len(col) : col[i] = <<>> \/ IsIntText(col[i])
    THEN IF \E i \in 1..Len(col) : col[i] = <<>>
         THEN PyFloat(int(strip(c))) ELSE PyInt(int(strip(c)))
    ELSE c

\* pd.read_csv(csv_path, header=header)
read_csv(lines, header) ==
    LET body == SubSeq(lines, header + 2, Len(lines))
        column(j) == [r \in 1..Len(body) |-> body[r][j]]
    IN  [columns |-> [j \in 1..Len(lines[header + 1]) |->
                        MangledName(lines[header + 1], j)],
         data |-> [r \in 1..Len(body) |->
                     [idx |-> r - 1,
                      cells |-> [j \in 1..Len(body[r]) |->
                                   ParsedCell(column(j), body[r][j])]]]]

(* load_dataframe (app.py)                                                 *)

HasEpisodeHeader(t) ==
    \E j \in 1..Len(t.columns) :
        Str(norm_key(t.columns[j])) \in {"eps", "episodio"}

HasBannerHeader(t) ==
    \E j \in 1..Len(t.columns) :
        Contains(norm_key(t.columns[j]),
                 <<"s","e","n","s","a","c","i","o","n","a","l">>)

\* the retry is made only when row 0 has no episode header
ReadWithHeaderRetry_nobanner(lines) ==
    LET df0 == read_csv(lines, 0)
    IN  IF ~HasEpisodeHeader(df0)
        THEN IF Len(lines) < 2 THEN df0
             ELSE LET df2 == read_csv(lines, 1)
                  IN  IF HasEpisodeHeader(df2) THEN df2 ELSE df0
        ELSE df0

\* the first read and the retry with row 1 as header
ReadWithHeaderRetry(lines) ==
    LET df0 == read_csv(lines, 0)
    IN  IF ~HasEpisodeHeader(df0) \/ HasBannerHeader(df0)
        THEN IF Len(lines) < 2 THEN df0
             ELSE LET df2 == read_csv(lines, 1)
                  IN  IF HasEpisodeHeader(df2) THEN df2 ELSE df0
        ELSE df0

\* the suffix does not choose the slot of a pair
HeaderTarget_nosuffix(raw) ==
    LET has_suffix == endswith(raw, <<".", "1">>)
        base == IF has_suffix THEN SubSeq(raw, 1, Len(raw) - 2) ELSE raw
        nk == Str(norm_key(base))
    IN  IF nk \in {"episodio", "episodios", "eps"} THEN COL_EP
        ELSE IF nk \in {"nome", "nomedoperosnagem", "nomepersonagem",
                        "nomedopersonagem"} THEN COL_NAME
        ELSE IF nk \in {"id", "iddoarquivo"} THEN COL_FILE_ID
        ELSE IF nk \in {"linkrig", "linkdorig",
                        "linkparabaixaromodelorigado"} THEN COL_RIG_LINK
        ELSE IF nk \in {"syncsketch"} THEN COL_SYNCSKETCH
        ELSE IF nk \in {"linksconcept", "linkconcept", "linkdoconcept",
                        "linkparabaixaromodeloceonceptvetorizado"}
             THEN COL_CONCEPT_LINK
        ELSE IF nk \in {"statusrig"} THEN COL_STATUS_RIG
        ELSE IF nk \in {"statusconcept", "vetorizacao"}
             THEN COL_STATUS_CONCEPT
        ELSE IF nk \in {"modelsheet"} THEN raw
        ELSE IF nk \in {"responsavel", "respondavel"}
             THEN COL_RESP_RIG
        ELSE IF nk \in {"entrega"}
             THEN COL_DATE_RIG
        ELSE IF nk \in {"comentarios", "comentario"} THEN COL_COMMENTS
        ELSE raw

\* ren[raw] of _rename_headers_for_schema, raw itself when not renamed
HeaderTarget(raw) ==
    LET has_suffix == endswith(raw, <<".", "1">>)
        base == IF has_suffix THEN SubSeq(raw, 1, Len(raw) - 2) ELSE raw
        nk == Str(norm_key(base))
    IN  IF nk \in {"episodio", "episodios", "eps"} THEN COL_EP
        ELSE IF nk \in {"nome", "nomedoperosnagem", "nomepersonagem",
                        "nomedopersonagem"} THEN COL_NAME
        ELSE IF nk \in {"id", "iddoarquivo"} THEN COL_FILE_ID
        ELSE IF nk \in {"linkrig", "linkdorig",
                        "linkparabaixaromodelorigado"} THEN COL_RIG_LINK
        ELSE IF nk \in {"syncsketch"} THEN COL_SYNCSKETCH
        ELSE IF nk \in {"linksconcept", "linkconcept", "linkdoconcept",
                        "linkparabaixaromodeloceonceptvetorizado"}
             THEN COL_CONCEPT_LINK
        ELSE IF nk \in {"statusrig"} THEN COL_STATUS_RIG
        ELSE IF nk \in {"statusconcept", "vetorizacao"}
             THEN COL_STATUS_CONCEPT
        ELSE IF nk \in {"modelsheet"} THEN raw
        ELSE IF nk \in {"responsavel", "respondavel"}
             THEN (IF has_suffix THEN COL_RESP_CONCEPT ELSE COL_RESP_RIG)
        ELSE IF nk \in {"entrega"}
             THEN (IF has_suffix THEN COL_DATE_CONCEPT ELSE COL_DATE_RIG)
        ELSE IF nk \in {"comentarios", "comentario"} THEN COL_COMMENTS
        ELSE raw

_rename_headers_for_schema(df_in) ==
    [df_in EXCEPT !.columns =
        [j \in 1..Len(df_in.columns) |-> HeaderTarget(df_in.columns[j])]]

\* isinstance(v, str) for a cell
IsStrCell(v) == v # NaN /\ v # None /\ ~IsNumber(v)

\* pd.notna(v)
notna(v) == v # NaN /\ v # None

RECURSIVE _first_nonempty(_)
_first_nonempty(row) ==
    IF row = <<>> THEN <<>>
    ELSE IF IsStrCell(Head(row))
         THEN (IF strip(Head(row)) # <<>> THEN Head(row)
               ELSE _first_nonempty(Tail(row)))
         ELSE (IF notna(Head(row)) THEN Head(row)
               ELSE _first_nonempty(Tail(row)))

\* the names that occur more than once, in the order of their second
\* occurrence: pd.Index(cols)[pd.Index(cols).duplicated()].unique()
RECURSIVE DupNamesUpTo(_, _)
DupNamesUpTo(cols, j) ==
    IF j = 0 THEN <<>>
    ELSE LET before == DupNamesUpTo(cols, j - 1)
         IN  IF /\ \E i \in 1..(j - 1) : cols[i] = cols[j]
                /\ ~\E i \in 1..Len(before) : before[i] = cols[j]
             THEN Append(before, cols[j])
             ELSE before

DupNames(cols) == DupNamesUpTo(cols, Len(cols))

\* one round of the collapse loop: the columns called name are replaced by
\* one column, put last, holding the combined values
CollapseColumn(t, name) ==
    LET same == SelectSeq(Positions(Len(t.columns)),
                          LAMBDA j : t.columns[j] = name)
        rest == SelectSeq(Positions(Len(t.columns)),
                          LAMBDA j : t.columns[j] # name)
    IN  [columns |-> [k \in 1..Len(rest) |-> t.columns[rest[k]]]
                        \o <<name>>,
         data |-> [r \in 1..Len(t.data) |->
            [t.data[r] EXCEPT !.cells =
                [k \in 1..Len(rest) |-> t.data[r].cells[rest[k]]]
                \o <<_first_nonempty(
                        [k \in 1..Len(same) |-> t.data[r].cells[same[k]]])>>]]]

RECURSIVE CollapseColumns(_, _)
CollapseColumns(t, names) ==
    IF names = <<>> THEN t
    ELSE CollapseColumns(CollapseColumn(t, Head(names)), Tail(names))

CollapseDuplicates(t) == CollapseColumns(t, DupNames(t.columns))

\* Series.fillna('') on one cell
fillna(v) == IF v = NaN THEN <<>> ELSE v

\* Series.fillna('').astype(str) on one cell
fillna_astype_str(v) == str(fillna(v))

coalesce(v) ==
    IF v = None THEN <<>>
    ELSE IF IsStrCell(v) THEN strip(v)
    ELSE v

normalize_responsavel(s) ==
    LET raw == coalesce(s)
    IN  IF IsStrCell(raw) /\ Str(_normalize_text(raw)) = "oto" THEN OTONIEL
        ELSE raw

\* a column is given the value f(old cell) when it is present
MapIfPresent(t, c, f(_)) ==
    IF HasColumn(t, c) THEN SetColumn(t, c, LAMBDA r : f(Cell(t, r, c)))
    ELSE t

RECURSIVE FillColumns(_, _)
FillColumns(t, cs) ==
    IF cs = <<>> THEN t
    ELSE FillColumns(MapIfPresent(t, Head(cs), fillna), Tail(cs))

\* lines 388-395: the name column is made a str column, created empty when
\* absent, and filled from PERSONAGEM where blank
EnsureName(t) ==
    LET t1 == IF HasColumn(t, COL_NAME)
              THEN MapIfPresent(t, COL_NAME, fillna_astype_str)
              ELSE SetColumn(t, COL_NAME, LAMBDA r : <<>>)
    IN  IF HasColumn(t1, HDR_PERSONAGEM)
        THEN SetColumn(t1, COL_NAME,
                LAMBDA r : IF strip(Cell(t1, r, COL_NAME)) = <<>>
                           THEN fillna_astype_str(Cell(t1, r, HDR_PERSONAGEM))
                           ELSE Cell(t1, r, COL_NAME))
        ELSE t1

Raised(name) == [exc |-> name, columns |-> <<>>, data |-> <<>>]

Returned(t) == [exc |-> "", columns |-> t.columns, data |-> t.data]

\* the whole of load_dataframe: the table returned, or the exception raised
load_dataframe(lines) ==
    LET read == ReadWithHeaderRetry(lines)
        renamed == _rename_headers_for_schema(read)
        collapsed == CollapseDuplicates(renamed)
        named == EnsureName(collapsed)
    IN  IF ~HasColumn(named, COL_FILE_ID) THEN Raised("AttributeError")
        ELSE LET ided == MapIfPresent(named, COL_FILE_ID, fillna_astype_str)
                 filled == FillColumns(ided,
                    <<COL_STATUS_CONCEPT, COL_STATUS_RIG, COL_URG_CONCEPT,
                      COL_URG_RIG, COL_RESP_CONCEPT, COL_RESP_RIG,
                      COL_COMMENTS, COL_DATE_CONCEPT, COL_DATE_RIG>>)
                 resp_c == MapIfPresent(filled, COL_RESP_CONCEPT,
                                        normalize_responsavel)
                 resp_r == MapIfPresent(resp_c, COL_RESP_RIG,
                                        normalize_responsavel)
             IN  Returned(resp_r)

(* Episode universe and explosion (app.py)                                 *)

\* sorted(S) for a finite set of integers
RECURSIVE sorted(_)
sorted(S) ==
    IF S = {} THEN <<>>
    ELSE LET m == CHOOSE x \in S : \A y \in S : x <= y
         IN  <<m>> \o sorted(S \ {m})

\* the integers of a parsed episode list
IntsOf(lst) == {lst[i][2] : i \in {k \in 1..Len(lst) : IsInt(lst[k])}}

Value(v) == [exc |-> "", value |-> v]

Failure(name) == [exc |-> name, value |-> <<>>]

\* df.get(COL_EP, []) is a plain list when the column is absent, and a list
\* has no tolist()
detect_all_numeric_episodes(t) ==
    IF ~HasColumn(t, COL_EP) THEN Failure("AttributeError")
    ELSE Value(sorted(UNION {IntsOf(parse_episode_field(Cell(t, r, COL_EP))) :
                                r \in 1..Len(t.data)}))

_expand(lst, eps) ==
    IF \E i \in 1..Len(lst) : IsStr(lst[i]) /\ lower(lst[i][2]) = todos
    THEN [i \in 1..Len(eps) |-> PyInt(eps[i])]
    ELSE lst

\* unidecode(s) on the characters of the model
unidecode(s) ==
    SelectSeq(NFD(s), LAMBDA ch : ch \notin Combining)

isalnum(ch) ==
    ch \in AsciiLower \cup AsciiDigit \cup {UpperCh(c) : c \in AsciiLower}

SearchKey(s) == SelectSeq(unidecode(lower(s)), isalnum)

is_concluido(s) == Str(_normalize_text(s)) = "concluido"

\* a number is kept once in the rows of a record
ExplodeRow_distinct(t, r, lst) ==
    LET once == SelectSeq([i \in 1..Len(lst) |-> <<i, lst[i]>>],
                          LAMBDA e : \A j \in 1..(e[1] - 1) : lst[j] # e[2])
    IN  IF lst = <<>> THEN <<[idx |-> t.data[r].idx, cells |-> t.data[r].cells,
                              ep |-> NaN]>>
        ELSE [i \in 1..Len(once) |->
                [idx |-> t.data[r].idx, cells |-> t.data[r].cells,
                 ep |-> once[i][2]]]

\* DataFrame.explode on the row r of t, whose episode list is lst: one row
\* per element, one row holding NaN when the list is empty
ExplodeRow(t, r, lst) ==
    IF lst = <<>> THEN <<[idx |-> t.data[r].idx, cells |-> t.data[r].cells,
                          ep |-> NaN]>>
    ELSE [i \in 1..Len(lst) |->
            [idx |-> t.data[r].idx, cells |-> t.data[r].cells,
             ep |-> lst[i]]]

RECURSIVE AddMissing(_, _)
AddMissing(t, cs) ==
    IF cs = <<>> THEN t
    ELSE AddMissing(IF HasColumn(t, Head(cs)) THEN t
                    ELSE SetColumn(t, Head(cs), LAMBDA r : <<>>),
                    Tail(cs))

build_base_exp_noexpand(t, all_eps_tuple) ==
    IF ~HasColumn(t, COL_EP) THEN Failure("KeyError")
    ELSE
    LET lists == [r \in 1..Len(t.data) |->
                    parse_episode_field(Cell(t, r, COL_EP))]
        exploded == Flatten([r \in 1..Len(t.data) |->
                               ExplodeRow(t, r, lists[r])])
        kept == SelectSeq(exploded, LAMBDA row : IsInt(row.ep))
        base == AddMissing([columns |-> t.columns, data |-> kept],
                   <<COL_STATUS_CONCEPT, COL_STATUS_RIG, COL_URG_CONCEPT,
                     COL_URG_RIG, COL_RESP_CONCEPT, COL_RESP_RIG>>)
    IN  Value([columns |-> base.columns,
               data |-> [k \in 1..Len(base.data) |->
                  [idx |-> base.data[k].idx,
                   cells |-> base.data[k].cells,
                   EP_LIST |-> base.data[k].ep[2],
                   name_norm |-> SearchKey(str(Cell(base, k, COL_NAME))),
                   id_norm |-> SearchKey(str(Cell(base, k, COL_FILE_ID))),
                   ok_c |-> is_concluido(Cell(base, k, COL_STATUS_CONCEPT)),
                   ok_r |-> is_concluido(Cell(base, k, COL_STATUS_RIG)),
                   ok_both |->
                      /\ is_concluido(Cell(base, k, COL_STATUS_CONCEPT))
                      /\ is_concluido(Cell(base, k, COL_STATUS_RIG))]]])

\* build_base_exp: the exploded table, whose rows carry the derived columns
\* __EP_LIST__, __name_norm__, __id_norm__, __ok_c__, __ok_r__, __ok_both__
\* as the fields EP_LIST, name_norm, id_norm, ok_c, ok_r, ok_both
build_base_exp(t, all_eps_tuple) ==
    IF ~HasColumn(t, COL_EP) THEN Failure("KeyError")
    ELSE
    LET parsed == [r \in 1..Len(t.data) |->
                     parse_episode_field(Cell(t, r, COL_EP))]
        lists == IF all_eps_tuple # <<>>
                 THEN [r \in 1..Len(t.data) |->
                         _expand(parsed[r], all_eps_tuple)]
                 ELSE parsed
        exploded == Flatten([r \in 1..Len(t.data) |->
                               ExplodeRow(t, r, lists[r])])
        kept == SelectSeq(exploded, LAMBDA row : IsInt(row.ep))
        base == AddMissing([columns |-> t.columns, data |-> kept],
                   <<COL_STATUS_CONCEPT, COL_STATUS_RIG, COL_URG_CONCEPT,
                     COL_URG_RIG, COL_RESP_CONCEPT, COL_RESP_RIG>>)
    IN  Value([columns |-> base.columns,
               data |-> [k \in 1..Len(base.data) |->
                  [idx |-> base.data[k].idx,
                   cells |-> base.data[k].cells,
                   EP_LIST |-> base.data[k].ep[2],
                   name_norm |-> SearchKey(str(Cell(base, k, COL_NAME))),
                   id_norm |-> SearchKey(str(Cell(base, k, COL_FILE_ID))),
                   ok_c |-> is_concluido(Cell(base, k, COL_STATUS_CONCEPT)),
                   ok_r |-> is_concluido(Cell(base, k, COL_STATUS_RIG)),
                   ok_both |->
                      /\ is_concluido(Cell(base, k, COL_STATUS_CONCEPT))
                      /\ is_concluido(Cell(base, k, COL_STATUS_RIG))]]])

(* Specification of one run of the script over a CSV file: the table is    *)
(* loaded, the episode universe is detected, the table is exploded.        *)

MaxRows == 3

\* a layout is a header line, each header paired with the field it carries
CanonicalLayout ==
    << <<COL_EP, "ep">>, <<COL_NAME, "name">>, <<COL_FILE_ID, "id">>,
       <<COL_RIG_LINK, "link">>, <<COL_SYNCSKETCH, "link">>,
       <<COL_CONCEPT_LINK, "link">>, <<COL_URG_CONCEPT, "urg">>,
       <<COL_STATUS_CONCEPT, "st_c">>, <<COL_RESP_CONCEPT, "resp_c">>,
       <<COL_URG_RIG, "urg">>, <<COL_STATUS_RIG, "st_r">>,
       <<COL_RESP_RIG, "resp_r">>, <<COL_COMMENTS, "text">>,
       <<COL_DATE_CONCEPT, "text">>, <<COL_DATE_RIG, "text">> >>

NewLayout ==
    << <<HDR_EPS, "ep">>, <<HDR_PERSONAGEM, "alt_name">>, <<HDR_NOME, "nome">>,
       <<HDR_ID, "id">>, <<HDR_LINK_RIG, "link">>,
       <<HDR_STATUS_RIG, "st_r">>, <<HDR_RESPONSAVEL, "resp_r">>,
       <<HDR_ENTREGA, "text">>, <<HDR_URGENCIA, "urg">>,
       <<HDR_SYNC_SKETCH, "link">>, <<HDR_LINKS_CONCEPT, "link">>,
       <<HDR_MODEL_SHEET, "text">>, <<HDR_STATUS_CONCEPT, "blank">>,
       <<HDR_VETORIZACAO, "st_c">>, <<HDR_RESPONSAVEL, "resp_c">>,
       <<HDR_ENTREGA, "text">>, <<HDR_URGENCIA, "urg">>,
       <<COL_COMMENTS, "text">> >>

Layouts == {CanonicalLayout, NewLayout}

\* the layout without the columns that carry the given field
DropField(layout, field) ==
    SelectSeq(layout, LAMBDA e : e[2] # field)

DroppedFields == {"none", "ep", "name", "nome", "id", "st_c", "resp_r"}

EpCells ==
    { <<"1", ",", " ", "3">>, <<"2">>, Todos, <<>>,
      <<"3", " ", "e", " ", "3">> }

\* the cell of a record under a column that carries the given field; rec
\* gives the fields that vary, the others have a fixed value
FieldCell(field, rec) ==
    CASE field \in DOMAIN rec -> rec[field]
      [] field = "name" -> <<"A", "n", "a">>
      [] field = "alt_name" -> <<"A", "n", "a">>
      [] field = "nome" -> <<>>
      [] field = "id" -> <<"S", "V", "B", "_", "A", "N", "A">>
      [] field = "st_c" -> <<"C", "o", "n", "c", "l", "u", "i+acute", "d", "o">>
      [] field = "st_r" -> <<"E", "m", " ", "A", "n", "d", "a", "m", "e", "n",
                             "t", "o">>
      [] field = "resp_c" -> <<" ", "O", "t", "o">>
      [] field = "resp_r" -> <<"B", "i", "a">>
      [] field = "urg" -> <<"A", "l", "t", "a">>
      [] field = "blank" -> <<>>
      [] OTHER -> <<"x">>

\* the sequences of n records drawn from the set recs
RECURSIVE Records(_, _)
Records(recs, n) ==
    IF n = 0 THEN {<<>>}
    ELSE {Append(rs, r) : rs \in Records(recs, n - 1), r \in recs}

EpRecords == {[ep |-> e] : e \in EpCells}

BannerLine(n) == [j \in 1..n |-> IF j = 1 THEN HDR_BANNER ELSE <<>>]

\* the lines of the file: an optional banner, the header, one line a record
CsvFile(layout, banner, recs) ==
    (IF banner THEN <<BannerLine(Len(layout))>> ELSE <<>>)
    \o <<[j \in 1..Len(layout) |-> layout[j][1]]>>
    \o [r \in 1..Len(recs) |->
          [j \in 1..Len(layout) |-> FieldCell(layout[j][2], recs[r])]]

\* files of one record under every header line, and files of up to MaxRows
\* records under the two full header lines
CsvFiles ==
    {CsvFile(DropField(layout, field), banner, recs) :
        layout \in Layouts, field \in DroppedFields, banner \in BOOLEAN,
        recs \in Records(EpRecords, 1)}
    \cup
    {CsvFile(layout, FALSE, recs) :
        layout \in Layouts,
        recs \in UNION {Records(EpRecords, n) : n \in 2..MaxRows}}

TextIdle ==
    /\ txt = <<>>
    /\ epList = <<>>
    /\ key = <<>>
    /\ key2 = <<>>
    /\ status_kind = ""

Init ==
    /\ pc = "start"
    /\ csv \in CsvFiles
    /\ df = NoTable
    /\ all_eps = <<>>
    /\ base_exp = NoTable
    /\ exc = ""
    /\ TextIdle
    /\ ListIdle
    /\ ImgIdle
    /\ StatsIdle

\* app.py 644-649: an exception of load_dataframe is shown and the run stops
LoadDataframe ==
    /\ pc = "start"
    /\ LET res == load_dataframe(csv)
       IN  IF res.exc # ""
           THEN /\ pc' = "stopped"
                /\ exc' = res.exc
                /\ UNCHANGED df
           ELSE /\ pc' = "loaded"
                /\ df' = [columns |-> res.columns, data |-> res.data]
                /\ UNCHANGED exc
    /\ UNCHANGED <<csv, all_eps, base_exp, textVars, listVars, imgVars, statsVars>>

\* app.py 658; an exception here is not caught and ends the run
DetectEpisodes ==
    /\ pc = "loaded"
    /\ LET res == detect_all_numeric_episodes(df)
       IN  IF res.exc # ""
           THEN /\ pc' = "crashed"
                /\ exc' = res.exc
                /\ UNCHANGED all_eps
           ELSE /\ pc' = "detected"
                /\ all_eps' = res.value
                /\ UNCHANGED exc
    /\ UNCHANGED <<csv, df, base_exp, textVars, listVars, imgVars, statsVars>>

\* app.py 762
BuildBaseExp ==
    /\ pc = "detected"
    /\ LET res == build_base_exp(df, all_eps)
       IN  IF res.exc # ""
           THEN /\ pc' = "crashed"
                /\ exc' = res.exc
                /\ UNCHANGED base_exp
           ELSE /\ pc' = "exploded"
                /\ base_exp' = res.value
                /\ UNCHANGED exc
    /\ UNCHANGED <<csv, df, all_eps, textVars, listVars, imgVars, statsVars>>

Next == LoadDataframe \/ DetectEpisodes \/ BuildBaseExp

Spec == Init /\ [][Next]_vars

(* Claims about loading and exploding                                      *)

CanonicalHeaders ==
    [j \in 1..Len(CanonicalLayout) |-> CanonicalLayout[j][1]]

\* C1 (as stated): for a table whose headers are exactly the canonical
\* internal column names, each once, the column names after the header
\* rename and the duplicate collapse of load_dataframe equal the input
\* column names.
C1_AsStated ==
    (pc = "loaded" /\ csv[1] = CanonicalHeaders) => df.columns = csv[1]

\* the episode universe: every integer parsed from any record of the table
Universe(t) ==
    UNION {IntsOf(parse_episode_field(Cell(t, r, COL_EP))) :
              r \in 1..Len(t.data)}

HasSentinel(lst) == \E i \in 1..Len(lst) : lst[i] = PyStr(Todos)

\* the episodes of the exploded rows that come from the record labelled idx
EpisodesOf(idx) ==
    {base_exp.data[k].EP_LIST :
        k \in {h \in 1..Len(base_exp.data) : base_exp.data[h].idx = idx}}

\* C4: in the exploded table a record whose parsed episode list holds the
\* wildcard sentinel belongs to exactly the episodes of the universe, the
\* universe being the sorted union of the integer episodes of all records of
\* the loaded table.
C4_WildcardIsUniverse ==
    pc = "exploded" =>
        /\ {all_eps[i] : i \in 1..Len(all_eps)} = Universe(df)
        /\ \A i \in 1..(Len(all_eps) - 1) : all_eps[i] < all_eps[i + 1]
        /\ \A r \in 1..Len(df.data) :
              HasSentinel(parse_episode_field(Cell(df, r, COL_EP)))
                 => EpisodesOf(df.data[r].idx) = Universe(df)

C4_Witness ==
    /\ pc = "exploded"
    /\ Len(df.data) = 3
    /\ Cell(df, 1, COL_EP) = <<"1", ",", " ", "3">>
    /\ Cell(df, 2, COL_EP) = <<"2">>
    /\ Cell(df, 3, COL_EP) = Todos
    /\ all_eps = <<1, 2, 3>>
    /\ EpisodesOf(2) = {1, 2, 3}

\* the column c is absent from the table once the headers are renamed
MissingColumn(c) ==
    ~HasColumn(_rename_headers_for_schema(ReadWithHeaderRetry(csv)), c)

\* no header of row 0 or of row 1 is a spelling of the episode column
NoEpisodeColumn ==
    \A h \in {0, 1} :
        h + 1 <= Len(csv) =>
            \A j \in 1..Len(csv[h + 1]) :
                HeaderTarget(read_csv(csv, h).columns[j]) # COL_EP

\* C6 (as stated): when no episode column is found, load_dataframe,
\* detect_all_numeric_episodes and build_base_exp complete without raising,
\* the universe is empty and the exploded table has no rows.  Stated for the
\* tables that have a file-id column, the absence of which is the case of C7.
C6_AsStated ==
    (NoEpisodeColumn /\ ~MissingColumn(COL_FILE_ID)) =>
        /\ exc = ""
        /\ pc = "exploded" => (all_eps = <<>> /\ base_exp.data = <<>>)

\* C7 (as stated): when the file-id column, the name column or a status or
\* responsible column is missing, load_dataframe returns a table without
\* raising and the field reads as '' for every record downstream.
C7_AsStated ==
    \A c \in {COL_FILE_ID, COL_NAME, COL_STATUS_CONCEPT, COL_STATUS_RIG,
              COL_RESP_CONCEPT, COL_RESP_RIG} :
        MissingColumn(c) =>
            /\ pc # "stopped"
            /\ pc = "exploded" =>
                  \A k \in 1..Len(base_exp.data) :
                      Cell(base_exp, k, c) = <<>>

(* Ordering of str values, as Python compares them                         *)

\* ord(ch)
CodePoint ==
    ("\t" :> 9) @@ (" " :> 32) @@ ("!" :> 33) @@ ("#" :> 35) @@
    ("$" :> 36) @@ ("%" :> 37) @@ ("&" :> 38) @@ ("'" :> 39) @@
    ("(" :> 40) @@ (")" :> 41) @@ ("*" :> 42) @@ ("+" :> 43) @@
    ("," :> 44) @@ ("-" :> 45) @@ ("." :> 46) @@ ("/" :> 47) @@
    ("0" :> 48) @@ ("1" :> 49) @@ ("2" :> 50) @@ ("3" :> 51) @@
    ("4" :> 52) @@ ("5" :> 53) @@ ("6" :> 54) @@ ("7" :> 55) @@
    ("8" :> 56) @@ ("9" :> 57) @@ (":" :> 58) @@ (";" :> 59) @@
    ("<" :> 60) @@ ("=" :> 61) @@ (">" :> 62) @@ ("?" :> 63) @@
    ("@" :> 64) @@ ("A" :> 65) @@ ("B" :> 66) @@ ("C" :> 67) @@
    ("D" :> 68) @@ ("E" :> 69) @@ ("F" :> 70) @@ ("G" :> 71) @@
    ("H" :> 72) @@ ("I" :> 73) @@ ("J" :> 74) @@ ("K" :> 75) @@
    ("L" :> 76) @@ ("M" :> 77) @@ ("N" :> 78) @@ ("O" :> 79) @@
    ("P" :> 80) @@ ("Q" :> 81) @@ ("R" :> 82) @@ ("S" :> 83) @@
    ("T" :> 84) @@ ("U" :> 85) @@ ("V" :> 86) @@ ("W" :> 87) @@
    ("X" :> 88) @@ ("Y" :> 89) @@ ("Z" :> 90) @@ ("[" :> 91) @@
    ("]" :> 93) @@ ("^" :> 94) @@ ("_" :> 95) @@
    ("a" :> 97) @@ ("b" :> 98) @@ ("c" :> 99) @@ ("d" :> 100) @@
    ("e" :> 101) @@ ("f" :> 102) @@ ("g" :> 103) @@ ("h" :> 104) @@
    ("i" :> 105) @@ ("j" :> 106) @@ ("k" :> 107) @@ ("l" :> 108) @@
    ("m" :> 109) @@ ("n" :> 110) @@ ("o" :> 111) @@ ("p" :> 112) @@
    ("q" :> 113) @@ ("r" :> 114) @@ ("s" :> 115) @@ ("t" :> 116) @@
    ("u" :> 117) @@ ("v" :> 118) @@ ("w" :> 119) @@ ("x" :> 120) @@
    ("y" :> 121) @@ ("z" :> 122) @@ ("{" :> 123) @@ ("|" :> 124) @@
    ("}" :> 125) @@ ("~" :> 126) @@ ("A+acute" :> 193) @@
    ("A+tilde" :> 195) @@ ("C+cedil" :> 199) @@ ("E+acute" :> 201) @@
    ("E+circ" :> 202) @@ ("I+acute" :> 205) @@ ("O+acute" :> 211) @@
    ("a+acute" :> 225) @@ ("a+tilde" :> 227) @@ ("c+cedil" :> 231) @@
    ("e+acute" :> 233) @@ ("e+circ" :> 234) @@ ("i+acute" :> 237) @@
    ("o+acute" :> 243) @@ ("+acute" :> 769) @@ ("+circ" :> 770) @@
    ("+tilde" :> 771) @@ ("+cedil" :> 807)


RECURSIVE StrLess(_, _)
StrLess(a, b) ==
    IF b = <<>> THEN FALSE
    ELSE IF a = <<>> THEN TRUE
    ELSE IF Head(a) = Head(b) THEN StrLess(Tail(a), Tail(b))
    ELSE CodePoint[Head(a)] < CodePoint[Head(b)]

\* a stable sort: equal elements keep their order
StableSort(seq, Lt(_, _)) ==
    LET n == Len(seq)
        rank(i) == Cardinality({j \in 1..n :
                       \/ Lt(seq[j], seq[i])
                       \/ (~Lt(seq[i], seq[j]) /\ j < i)})
    IN  [k \in 1..n |-> seq[CHOOSE i \in 1..n : rank(i) = k - 1]]

(* list_tab.py: open tasks                                                 *)

EpColNames ==
    << COL_EP, <<"E","P","S">>, <<"E","p","i","s","o+acute","d","i","o">>,
       <<"E","p","i","s","o","d","i","o">> >>

NameColNames ==
    << COL_NAME, <<"N","O","M","E">>, <<"N","o","m","e">>,
       <<"p","e","r","s","o","n","a","g","e","m">>,
       <<"P","E","R","S","O","N","A","G","E","M">>,
       <<"N","o","m","e"," ","d","o"," ","p","e","r","s","o","n","a","g","e","m">> >>

AltNameColNames ==
    << <<"P","E","R","S","O","N","A","G","E","M">>,
       <<"P","e","r","s","o","n","a","g","e","m">> >>

IdColNames ==
    << COL_FILE_ID, <<"I","D">>, <<"I","d">>,
       <<"I","D"," ","d","o"," ","A","r","q","u","i","v","o">> >>

RigLinkColNames ==
    << COL_RIG_LINK, <<"L","I","N","K"," ","R","I","G">>,
       <<"L","i","n","k"," ","R","i","g">> >>

SyncColNames ==
    << COL_SYNCSKETCH, <<"S","Y","N","C"," ","S","K","E","T","C","H">>,
       <<"S","y","n","c","S","k","e","t","c","h">>,
       <<"S","y","n","c"," ","S","k","e","t","c","h">> >>

ConceptLinkColNames ==
    << COL_CONCEPT_LINK, <<"L","I","N","K","S"," ","C","O","N","C","E","P","T">>,
       <<"L","i","n","k"," ","C","o","n","c","e","p","t">>,
       <<"L","I","N","K"," ","C","O","N","C","E","P","T">> >>

StatusConceptColNames ==
    << COL_STATUS_CONCEPT,
       <<"S","T","A","T","U","S"," ","C","O","N","C","E","P","T">>,
       <<"S","t","a","t","u","s"," ","C","o","n","c","e","p","t">> >>

StatusRigColNames ==
    << COL_STATUS_RIG, <<"S","T","A","T","U","S"," ","R","I","G">>,
       <<"S","t","a","t","u","s"," ","R","i","g">> >>

RespRigColNames ==
    << COL_RESP_RIG, <<"R","E","S","P","O","N","S","A+acute","V","E","L">>,
       <<"R","e","s","p","o","n","s","a+acute","v","e","l">>,
       <<"R","e","s","p","o","n","s","a+acute","v","e","l"," ","R","I","G">>,
       <<"R","E","S","P","O","N","S","A","V","E","L">> >>

RespConceptDrawColNames ==
    << COL_RESP_CONCEPT,
       <<"R","E","S","P","O","N","S","A+acute","V","E","L"," ","C","O","N","C","E","P","T">>,
       <<"R","e","s","p","o","n","s","a+acute","v","e","l"," ","C","o","n","c","e","p","t">>,
       <<"R","e","s","p","o","n","s","a+acute","v","e","l"," ","(","D","e","s","e","n","h","o",")">> >>

RespConceptVectColNames ==
    << <<"R","E","S","P","O","N","S","A+acute","V","E","L"," ","V","E","T","O","R","I","Z","A","C+cedil","A+tilde","O">>,
       <<"R","e","s","p","o","n","s","a+acute","v","e","l"," ","V","e","t","o","r","i","z","a","c+cedil","a+tilde","o">>,
       <<"R","e","s","p","o","n","s","a+acute","v","e","l"," ","(","V","e","t","o","r","i","z","a","c+cedil","a+tilde","o",")">> >>

CommentsColNames ==
    << COL_COMMENTS, <<"C","O","M","E","N","T","A+acute","R","I","O","S">>,
       <<"C","o","m","e","n","t","a+acute","r","i","o","s">>,
       <<"C","o","m","e","n","t","a","r","i","o","s">> >>

ReviewKeywords ==
    { <<"r","e","v","i","s","a","o">>, <<"a","n","a","l","i","s","e">>,
       <<"p","e","n","d","e","n","t","e","d","e","r","e","v","i","s","a","o">>,
       <<"p","e","n","d","e","n","t","e","d","e","a","n","a","l","i","s","e">> }

WipKeywords ==
    { <<"e","m","p","r","o","d","u","c","a","o">>,
       <<"e","m","a","n","d","a","m","e","n","t","o">>,
       <<"p","r","o","d","u","c","a","o">>,
       <<"p","r","o","g","r","e","s","s","o">> }

TodoKeywords ==
    { <<"n","a","o","i","n","i","c","i","a","d","o">>,
       <<"n","a","o","i","n","i","c","i","a","d","a">>,
       <<"n","a","o","_","i","n","i","c","i","a","d","o">> }

DoneKeyword ==
    <<"c","o","n","c","l","u","i","d","o">>


\* a or b
Or(a, b) == IF Falsy(a) THEN b ELSE a

\* the accents are not transliterated
_norm_nounidecode(s) ==
    SelectSeq(lower(strip(str(Or(s, <<>>)))),
              LAMBDA ch : ch \in AsciiLower \cup AsciiDigit)

_norm(s) ==
    SelectSeq(unidecode(lower(strip(str(Or(s, <<>>))))),
              LAMBDA ch : ch \in AsciiLower \cup AsciiDigit)

\* the in-progress keywords are tested before the review keywords
_status_kind_wipfirst(s) ==
    LET ns == _norm(s)
    IN  IF Contains(ns, DoneKeyword) THEN "done"
        ELSE IF \E k \in WipKeywords : Contains(ns, k) THEN "wip"
        ELSE IF \E k \in ReviewKeywords : Contains(ns, k) THEN "review"
        ELSE IF \E k \in TodoKeywords : Contains(ns, k) THEN "todo"
        ELSE "other"

_status_kind(s) ==
    LET ns == _norm(s)
    IN  IF Contains(ns, DoneKeyword) THEN "done"
        ELSE IF \E k \in ReviewKeywords : Contains(ns, k) THEN "review"
        ELSE IF \E k \in WipKeywords : Contains(ns, k) THEN "wip"
        ELSE IF \E k \in TodoKeywords : Contains(ns, k) THEN "todo"
        ELSE "other"

ALL == <<"A", "L", "L">>

_parse_eps(val) ==
    LET s == strip(str(Or(val, <<>>)))
    IN  IF s = <<>> THEN {}
        ELSE IF lower(s) = todos THEN {PyStr(ALL)}
        ELSE LET runs == findall_digits(s, <<>>)
             IN  {PyInt(int(runs[i])) : i \in 1..Len(runs)}

\* pick(*cands): the first candidate that is a column of t, None if none is
RECURSIVE pick(_, _)
pick(t, cands) ==
    IF cands = <<>> THEN None
    ELSE IF HasColumn(t, Head(cands)) THEN Head(cands)
    ELSE pick(t, Tail(cands))

\* r.get(col, "") if col else ""
Get(t, r, col) == IF col = None THEN <<>> ELSE Cell(t, r, col)

\* ' / '.join(parts)
RECURSIVE JoinSlash(_)
JoinSlash(parts) ==
    IF parts = <<>> THEN <<>>
    ELSE IF Len(parts) = 1 THEN parts[1]
    ELSE parts[1] \o <<" ", "/", " ">> \o JoinSlash(Tail(parts))

\* the ep_first of a task row: min() of an empty set raises ValueError
FirstEpisode(ep_raw) ==
    LET eps == _parse_eps(ep_raw)
        ints == {e[2] : e \in {x \in eps : IsInt(x)}}
    IN  IF eps = {} THEN Value(9999)
        ELSE IF ints = {} THEN Failure("ValueError")
        ELSE Value(CHOOSE m \in ints : \A n \in ints : m <= n)

\* a stage of an unknown status is an open one too
TaskRows_notdone(t, r) ==
    LET ep_raw == Get(t, r, pick(t, EpColNames))
        nm == str(Or(Or(Get(t, r, pick(t, NameColNames)),
                        Get(t, r, pick(t, AltNameColNames))), <<>>))
        fid == str(Get(t, r, pick(t, IdColNames)))
        status_c == str(Get(t, r, pick(t, StatusConceptColNames)))
        status_r == str(Get(t, r, pick(t, StatusRigColNames)))
        sk_c == _status_kind(status_c)
        sk_r == _status_kind(Get(t, r, pick(t, StatusRigColNames)))
        draw_col == pick(t, RespConceptDrawColNames)
        vect_col == pick(t, RespConceptVectColNames)
        draw == str(Or(Get(t, r, draw_col), <<>>))
        vect == str(Or(Get(t, r, vect_col), <<>>))
        resp_c_parts == (IF draw_col # None THEN <<draw>> ELSE <<>>)
                        \o (IF vect_col # None THEN <<vect>> ELSE <<>>)
        resp_c_merged ==
            JoinSlash(SelectSeq(resp_c_parts, LAMBDA q : strip(q) # <<>>))
        resp_r == str(Get(t, r, pick(t, RespRigColNames)))
        sync == str(Get(t, r, pick(t, SyncColNames)))
        comments == str(Get(t, r, pick(t, CommentsColNames)))
        first == FirstEpisode(ep_raw)
        concept ==
            [episodio |-> ep_raw, ep_first |-> first.value,
             etapa |-> "Concept", nome |-> nm, id |-> fid,
             responsavel |-> resp_c_merged, status |-> status_c,
             kind |-> sk_c, status_c |-> status_c, status_r |-> status_r,
             resp_c |-> resp_c_merged, resp_r |-> resp_r,
             link |-> str(Get(t, r, pick(t, ConceptLinkColNames))),
             sync |-> sync, comentarios |-> comments]
        rig ==
            [episodio |-> ep_raw, ep_first |-> first.value,
             etapa |-> "Rig", nome |-> nm, id |-> fid,
             responsavel |-> resp_r, status |-> status_r,
             kind |-> sk_r, status_c |-> status_c, status_r |-> status_r,
             resp_c |-> draw \o (IF vect_col # None
                                 THEN <<" ", "/", " ">> \o vect ELSE <<>>),
             resp_r |-> resp_r,
             link |-> str(Get(t, r, pick(t, RigLinkColNames))),
             sync |-> sync, comentarios |-> comments]
        open == {"wip", "review", "todo", "other"}
    IN  IF (sk_c \in open \/ sk_r \in open) /\ first.exc # ""
        THEN Failure(first.exc)
        ELSE Value((IF sk_c \in open THEN <<concept>> ELSE <<>>)
                   \o (IF sk_r \in open THEN <<rig>> ELSE <<>>))

\* the task rows of the record r of t: its Concept row, then its Rig row
TaskRows(t, r) ==
    LET ep_raw == Get(t, r, pick(t, EpColNames))
        nm == str(Or(Or(Get(t, r, pick(t, NameColNames)),
                        Get(t, r, pick(t, AltNameColNames))), <<>>))
        fid == str(Get(t, r, pick(t, IdColNames)))
        status_c == str(Get(t, r, pick(t, StatusConceptColNames)))
        status_r == str(Get(t, r, pick(t, StatusRigColNames)))
        sk_c == _status_kind(status_c)
        sk_r == _status_kind(Get(t, r, pick(t, StatusRigColNames)))
        draw_col == pick(t, RespConceptDrawColNames)
        vect_col == pick(t, RespConceptVectColNames)
        draw == str(Or(Get(t, r, draw_col), <<>>))
        vect == str(Or(Get(t, r, vect_col), <<>>))
        resp_c_parts == (IF draw_col # None THEN <<draw>> ELSE <<>>)
                        \o (IF vect_col # None THEN <<vect>> ELSE <<>>)
        resp_c_merged ==
            JoinSlash(SelectSeq(resp_c_parts, LAMBDA q : strip(q) # <<>>))
        resp_r == str(Get(t, r, pick(t, RespRigColNames)))
        sync == str(Get(t, r, pick(t, SyncColNames)))
        comments == str(Get(t, r, pick(t, CommentsColNames)))
        first == FirstEpisode(ep_raw)
        concept ==
            [episodio |-> ep_raw, ep_first |-> first.value,
             etapa |-> "Concept", nome |-> nm, id |-> fid,
             responsavel |-> resp_c_merged, status |-> status_c,
             kind |-> sk_c, status_c |-> status_c, status_r |-> status_r,
             resp_c |-> resp_c_merged, resp_r |-> resp_r,
             link |-> str(Get(t, r, pick(t, ConceptLinkColNames))),
             sync |-> sync, comentarios |-> comments]
        rig ==
            [episodio |-> ep_raw, ep_first |-> first.value,
             etapa |-> "Rig", nome |-> nm, id |-> fid,
             responsavel |-> resp_r, status |-> status_r,
             kind |-> sk_r, status_c |-> status_c, status_r |-> status_r,
             resp_c |-> draw \o (IF vect_col # None
                                 THEN <<" ", "/", " ">> \o vect ELSE <<>>),
             resp_r |-> resp_r,
             link |-> str(Get(t, r, pick(t, RigLinkColNames))),
             sync |-> sync, comentarios |-> comments]
        open == {"wip", "review", "todo"}
    IN  IF (sk_c \in open \/ sk_r \in open) /\ first.exc # ""
        THEN Failure(first.exc)
        ELSE Value((IF sk_c \in open THEN <<concept>> ELSE <<>>)
                   \o (IF sk_r \in open THEN <<rig>> ELSE <<>>))

\* the order of sort_values(['ep_first', 'etapa', 'nome'])
TaskLess(a, b) ==
    \/ a.ep_first < b.ep_first
    \/ /\ a.ep_first = b.ep_first
       /\ \/ (a.etapa = "Concept" /\ b.etapa = "Rig")
          \/ (a.etapa = b.etapa /\ StrLess(a.nome, b.nome))

CollectTasks(per) ==
    IF \E r \in 1..Len(per) : per[r].exc # ""
    THEN Failure(per[CHOOSE r \in 1..Len(per) :
                        /\ per[r].exc # ""
                        /\ \A q \in 1..(r - 1) : per[q].exc = ""].exc)
    ELSE Value(StableSort(Flatten([r \in 1..Len(per) |-> per[r].value]),
                          TaskLess))

build_open_tasks(t) == CollectTasks([r \in 1..Len(t.data) |-> TaskRows(t, r)])

(* list_tab.py: names of responsibles and identifiers                      *)

AsciiUpper == {"A","B","C","D","E","F","G","H","I","J","K","L","M",
               "N","O","P","Q","R","S","T","U","V","W","X","Y","Z"}

AsciiAlnum == AsciiLower \cup AsciiUpper \cup AsciiDigit

\* the characters matched by \w
WordChars == AsciiAlnum \cup {"_"} \cup DOMAIN Decomposition

\* \b between s[k] and s[k + 1]
Boundary(s, k) ==
    LET IsWord(i) == i \in 1..Len(s) /\ s[i] \in WordChars
    IN  IsWord(k) # IsWord(k + 1)

\* the first position from i on that is not white space
RECURSIVE SkipSpace(_, _)
SkipSpace(s, i) ==
    IF i <= Len(s) /\ s[i] \in Whitespace THEN SkipSpace(s, i + 1) ELSE i

\* the length of the separator ,|;|/|\||&|\+|\be\b|\band\b at position j
SepAt(s, j) ==
    LET ws == {w \in {<<"e">>, <<"a", "n", "d">>} :
                  /\ j + Len(w) - 1 <= Len(s)
                  /\ lower(SubSeq(s, j, j + Len(w) - 1)) = w
                  /\ Boundary(s, j - 1)
                  /\ Boundary(s, j + Len(w) - 1)}
    IN  IF j > Len(s) THEN 0
        ELSE IF s[j] \in {",", ";", "/", "|", "&", "+"} THEN 1
        ELSE IF ws = {} THEN 0
        ELSE Len(CHOOSE w \in ws : TRUE)

\* pat.split(s): the pieces of s between the matches of the separator
\* pattern, a match being white space, a separator, white space
RECURSIVE Split(_, _, _)
Split(s, start, i) ==
    IF i > Len(s) THEN <<SubSeq(s, start, Len(s))>>
    ELSE LET j == SkipSpace(s, i)
             n == SepAt(s, j)
         IN  IF n = 0 THEN Split(s, start, i + 1)
             ELSE LET e == SkipSpace(s, j + n)
                  IN  <<SubSeq(s, start, i - 1)>> \o Split(s, e, e)

\* the items whose _norm key is not empty and not seen before
RECURSIVE DedupeFrom(_, _)
DedupeFrom(items, seen) ==
    IF items = <<>> THEN <<>>
    ELSE LET k == _norm(Head(items))
         IN  IF k # <<>> /\ k \notin seen
             THEN <<Head(items)>> \o DedupeFrom(Tail(items), seen \cup {k})
             ELSE DedupeFrom(Tail(items), seen)

_split_names(resp_str) ==
    LET pieces == Split(str(Or(resp_str, <<>>)), 1, 1)
        parts == SelectSeq([i \in 1..Len(pieces) |-> strip(pieces[i])],
                           LAMBDA q : q # <<>>)
    IN  DedupeFrom(parts, {})

\* the items are compared as they are written
RECURSIVE DedupeExact(_, _)
DedupeExact(items, seen) ==
    IF items = <<>> THEN <<>>
    ELSE IF _norm(Head(items)) # <<>> /\ Head(items) \notin seen
    THEN <<Head(items)>> \o DedupeExact(Tail(items), seen \cup {Head(items)})
    ELSE DedupeExact(Tail(items), seen)

_dedupe_preserve_exact(seq) == DedupeExact(seq, {})

_dedupe_preserve(seq) == DedupeFrom(seq, {})

\* the end of the run of [A-Za-z0-9] that starts at i (i - 1 if none)
RECURSIVE AlnumRunEnd(_, _)
AlnumRunEnd(s, i) ==
    IF i <= Len(s) /\ s[i] \in AsciiAlnum THEN AlnumRunEnd(s, i + 1)
    ELSE i - 1

SVB_ == <<"S", "V", "B", "_">>

\* _SVB_ID_RE matches at position p of s with group 1 ending at e
IdMatchAt(s, p, e) ==
    /\ p + 4 <= Len(s)
    /\ Boundary(s, p - 1)
    /\ Str(upper(SubSeq(s, p, p + 2))) \in {"SVB", "RIG", "PER"}
    /\ s[p + 3] = "_"
    /\ e = AlnumRunEnd(s, p + 4)
    /\ e >= p + 4
    /\ Boundary(s, e)

\* _SVB_ID_RE.search(s): group 1 of the leftmost match, None without a match
_SVB_ID_RE(s) ==
    LET ms == {m \in (1..Len(s)) \X (1..Len(s)) : IdMatchAt(s, m[1], m[2])}
        first == CHOOSE m \in ms : \A o \in ms : m[1] <= o[1]
    IN  IF ms = {} THEN None ELSE SubSeq(s, first[1] + 4, first[2])

RECURSIVE _extract_svb_id(_)
_extract_svb_id(texts) ==
    IF texts = <<>> THEN <<>>
    ELSE LET m == IF Falsy(Head(texts)) THEN None
                  ELSE _SVB_ID_RE(str(Head(texts)))
         IN  IF m = None THEN _extract_svb_id(Tail(texts))
             ELSE SVB_ \o upper(m)

_std_svb_id(s) ==
    LET m == _SVB_ID_RE(str(Or(s, <<>>)))
    IN  IF m # None THEN SVB_ \o upper(m) ELSE str(Or(s, <<>>))

\* re.sub("_+", "_", s)
RECURSIVE SqueezeUnderscores(_)
SqueezeUnderscores(s) ==
    IF Len(s) < 2 THEN s
    ELSE IF s[1] = "_" /\ s[2] = "_" THEN SqueezeUnderscores(Tail(s))
    ELSE <<s[1]>> \o SqueezeUnderscores(Tail(s))

\* s.strip("_")
RECURSIVE StripUnderscores(_)
StripUnderscores(s) ==
    IF s # <<>> /\ Head(s) = "_" THEN StripUnderscores(Tail(s))
    ELSE IF s # <<>> /\ s[Len(s)] = "_"
    THEN StripUnderscores(SubSeq(s, 1, Len(s) - 1))
    ELSE s

\* lines 536-537: the name in upper case with runs of other characters
\* turned into one underscore
NomeClean(nome) ==
    LET u == strip(upper(nome))
    IN  StripUnderscores(SqueezeUnderscores(
            [i \in 1..Len(u) |->
                IF u[i] \in AsciiAlnum \cup {"_"} THEN u[i] ELSE "_"]))

(* list_tab.py: render_list_tab, from the open tasks to the cards          *)

\* next((s for s in cells if str(s).strip()), "")
RECURSIVE FirstNonBlank(_)
FirstNonBlank(cells) ==
    IF cells = <<>> THEN <<>>
    ELSE IF strip(str(Head(cells))) # <<>> THEN Head(cells)
    ELSE FirstNonBlank(Tail(cells))

\* ", ".join(parts)
RECURSIVE JoinComma(_)
JoinComma(parts) ==
    IF parts = <<>> THEN <<>>
    ELSE IF Len(parts) = 1 THEN parts[1]
    ELSE parts[1] \o <<",", " ">> \o JoinComma(Tail(parts))

\* the items of seq without the empty ones and the ones already met
RECURSIVE Distinct(_, _)
Distinct(seq, seen) ==
    IF seq = <<>> THEN <<>>
    ELSE IF Head(seq) = <<>> \/ Head(seq) \in seen
    THEN Distinct(Tail(seq), seen)
    ELSE <<Head(seq)>> \o Distinct(Tail(seq), seen \cup {Head(seq)})

\* every kind has the rank of an unknown one
rank_map_flat(kind) == 0

\* rank_map.get(kind, 0)
rank_map(kind) ==
    CASE kind = "wip" -> 3
      [] kind = "review" -> 2
      [] kind = "todo" -> 1
      [] OTHER -> 0

\* line 448: the episode numbers offered by the episode filter
ListEpisodes(t) ==
    IF ~HasColumn(t, COL_EP) THEN Failure("AttributeError")
    ELSE Value(sorted(UNION {
             {e[2] : e \in {x \in _parse_eps(Cell(t, r, COL_EP)) : IsInt(x)}} :
             r \in 1..Len(t.data)}))

\* line 455: the names offered by the filter of responsibles
ListResponsibles(rows) ==
    LET names(cell) == IF strip(cell) = <<>> THEN <<>>
                       ELSE _split_names(cell)
    IN  UNION {{n[k] : k \in 1..Len(n)} :
                  n \in {names(rows[i].responsavel) : i \in 1..Len(rows)}}

\* lines 469-470: the rows of the selected stages
ByKind(rows, s) ==
    IF s.kinds = {} THEN rows
    ELSE SelectSeq(rows, LAMBDA x : x.kind \in s.kinds)

\* lines 471-474: the rows of the selected episodes
ByEpisode(rows, s) ==
    IF s.eps = {} THEN rows
    ELSE SelectSeq(rows, LAMBDA x :
            \/ PyStr(ALL) \in _parse_eps(x.episodio)
            \/ \E e \in s.eps : PyInt(e) \in _parse_eps(x.episodio))

\* lines 475-476: the rows of the selected steps
ByEtapa(rows, s) ==
    IF s.etapas = {} THEN rows
    ELSE SelectSeq(rows, LAMBDA x : x.etapa \in s.etapas)

\* lines 477-479: the rows of the selected responsibles
ByResponsible(rows, s) ==
    IF s.resps = {} THEN rows
    ELSE SelectSeq(rows, LAMBDA x :
            LET ns == _split_names(x.responsavel)
            IN  \E k \in 1..Len(ns), n \in s.resps : _norm(ns[k]) = _norm(n))

\* lines 480-482: the rows whose name or identifier contains the search text
BySearch(rows, s) ==
    IF s.q = <<>> THEN rows
    ELSE SelectSeq(rows, LAMBDA x :
            \/ Contains(lower(x.nome), lower(strip(s.q)))
            \/ Contains(lower(x.id), lower(strip(s.q))))

\* lines 469-482: the task rows kept by the selected filters, an empty
\* selection keeping every row
Filtered(rows, s) ==
    BySearch(ByResponsible(ByEtapa(ByEpisode(ByKind(rows, s), s), s), s), s)

\* the keys of groupby(["id", "nome"]), in the order of the groups
GroupKeyLess(a, b) ==
    \/ StrLess(a[1], b[1])
    \/ (a[1] = b[1] /\ StrLess(a[2], b[2]))

GroupKeys(rows) ==
    LET ks == {<<rows[i].id, rows[i].nome>> : i \in 1..Len(rows)}
    IN  [k \in 1..Cardinality(ks) |->
            CHOOSE x \in ks :
                Cardinality({y \in ks : GroupKeyLess(y, x)}) = k - 1]

\* sort_values("__rank__", ascending=False): the orders of the rows of a
\* group by decreasing rank; the sort is not a stable one, so rows of equal
\* rank come in any order
RECURSIVE RankOrders(_, _)
RankOrders(g, S) ==
    IF S = {} THEN {<<>>}
    ELSE LET top == {i \in S : \A j \in S :
                        rank_map(g[i].kind) >= rank_map(g[j].kind)}
         IN  UNION {{<<g[i]>> \o rest : rest \in RankOrders(g, S \ {i})} :
                    i \in top}

\* lines 517-553: the identifier shown on the card
BestId(pid, nome, links, syncs, comments) ==
    LET texts == links \o syncs \o <<comments>>
        extracted == [i \in 1..Len(texts) |-> _extract_svb_id(<<texts[i]>>)]
        clean == NomeClean(nome)
        candidate_ids ==
            (IF strip(str(pid)) # <<>> THEN <<str(pid)>> ELSE <<>>)
            \o SelectSeq(extracted, LAMBDA x : x # <<>>)
            \o (IF nome # <<>> /\ clean # <<>>
                THEN << SVB_ \o <<"R", "I", "G", "_">> \o clean,
                        SVB_ \o <<"P", "E", "R", "_">> \o clean,
                        SVB_ \o clean >>
                ELSE <<>>)
        normalized_candidates ==
            Distinct([i \in 1..Len(candidate_ids) |->
                         _std_svb_id(candidate_ids[i])], {})
    IN  IF normalized_candidates # <<>> THEN normalized_candidates[1]
        ELSE str(pid)

\* lines 499-574: the card of the group (pid, nome), its rows gs in rank
\* order
Card(pid, nome, gs) ==
    LET col(f(_)) == [i \in 1..Len(gs) |-> f(gs[i])]
        status_c == FirstNonBlank(col(LAMBDA x : x.status_c))
        status_r == FirstNonBlank(col(LAMBDA x : x.status_r))
        kind_c == _status_kind(status_c)
        kind_r == _status_kind(status_r)
        resp_c == JoinComma(_dedupe_preserve(
                      Flatten(col(LAMBDA x : _split_names(x.resp_c)))))
        resp_r == JoinComma(_dedupe_preserve(
                      Flatten(col(LAMBDA x : _split_names(x.resp_r)))))
        comments == FirstNonBlank(col(LAMBDA x : x.comentarios))
        links == SelectSeq(col(LAMBDA x : str(x.link)),
                           LAMBDA x : strip(x) # <<>>)
        syncs == SelectSeq(col(LAMBDA x : str(x.sync)),
                           LAMBDA x : strip(x) # <<>>)
        agg_rank == IF rank_map(kind_c) >= rank_map(kind_r)
                    THEN rank_map(kind_c) ELSE rank_map(kind_r)
    IN  [id |-> BestId(pid, nome, links, syncs, comments),
         nome |-> nome,
         status_c |-> status_c, status_r |-> status_r,
         kind_c |-> kind_c, kind_r |-> kind_r,
         resp_c |-> resp_c, resp_r |-> resp_r,
         comentarios |-> comments,
         link |-> IF links = <<>> THEN <<>> ELSE links[1],
         sync |-> IF syncs = <<>> THEN <<>> ELSE syncs[1],
         kind |-> CASE agg_rank = 3 -> "wip"
                    [] agg_rank = 2 -> "review"
                    [] agg_rank = 1 -> "todo"
                    [] OTHER -> "other"]

\* the rows of the group of key k
GroupRows(rows, k) ==
    SelectSeq(rows, LAMBDA x : <<x.id, x.nome>> = k)

\* the lists of cards, one card a group, that the groups of the given
\* keys can give
RECURSIVE CardLists(_, _)
CardLists(rows, keys) ==
    IF keys = <<>> THEN {<<>>}
    ELSE LET g == GroupRows(rows, Head(keys))
         IN  {<<Card(Head(keys)[1], Head(keys)[2], gs)>> \o rest :
                 gs \in RankOrders(g, 1..Len(g)),
                 rest \in CardLists(rows, Tail(keys))}

\* sort_values(["nome"]): the orders of the cards by name, cards of one
\* name in any order
RECURSIVE NameOrders(_, _)
NameOrders(cards, S) ==
    IF S = {} THEN {<<>>}
    ELSE LET first == {i \in S : \A j \in S :
                          ~StrLess(cards[j].nome, cards[i].nome)}
         IN  UNION {{<<cards[i]>> \o rest :
                        rest \in NameOrders(cards, S \ {i})} : i \in first}

\* lines 483-577: the cards listed for the filtered task rows
Aggregated(fil) ==
    UNION {NameOrders(cards, 1..Len(cards)) :
              cards \in CardLists(fil, GroupKeys(fil))}

(* Specification of a run of the script up to the list tab: the table is   *)
(* loaded and exploded as above, then the open tasks are built, filtered   *)
(* by a selection and aggregated into cards.                               *)

MaxListRows == 2

ListRecord(id, nm, ep, st_c, st_r, resp_c, resp_r) ==
    [id |-> id, name |-> nm, alt_name |-> nm, ep |-> ep,
     st_c |-> st_c, st_r |-> st_r, resp_c |-> resp_c, resp_r |-> resp_r]

ListRecords ==
    {
      ListRecord(<<"S", "V", "B", "_", "A", "N", "A">>,
                 <<"A", "n", "a">>,
                 <<"1", ",", " ", "3">>,
                 <<"E", "m", " ", "p", "r", "o", "d", "u", "c+cedil", "a+tilde", "o">>,
                 <<"N", "a+tilde", "o", " ", "i", "n", "i", "c", "i", "a", "d", "o">>,
                 <<>>,
                 <<"B", "i", "a", " ", "/", " ", "O", "t", "o", " ", "e", " ", "A", "n", "a">>),
      ListRecord(<<"S", "V", "B", "_", "A", "N", "A">>,
                 <<"A", "N", "A">>,
                 <<"2">>,
                 <<"C", "o", "n", "c", "l", "u", "i+acute", "d", "o">>,
                 <<"E", "m", " ", "A", "n", "d", "a", "m", "e", "n", "t", "o">>,
                 <<"O", "t", "o">>,
                 <<"B", "i", "a">>),
      ListRecord(<<>>,
                 <<"B", "i", "a">>,
                 <<"T", "o", "d", "o", "s">>,
                 <<"P", "e", "n", "d", "e", "n", "t", "e", " ", "d", "e", " ", "r", "e", "v", "i", "s", "a+tilde", "o">>,
                 <<"C", "o", "n", "c", "l", "u", "i+acute", "d", "o">>,
                 <<>>,
                 <<"b", "i", "a", ",", " ", "B", "I", "A">>),
      ListRecord(<<>>,
                 <<"b", "i", "a">>,
                 <<>>,
                 <<"C", "o", "n", "c", "l", "u", "i+acute", "d", "o">>,
                 <<"N", "a+tilde", "o", " ", "i", "n", "i", "c", "i", "a", "d", "o">>,
                 <<"E", "v", "a", " ", "e", " ", "O", "t", "o">>,
                 <<>>),
      ListRecord(<<"S", "V", "B", "_", "R", "I", "G", "_", "E", "V", "A">>,
                 <<"E", "v", "a">>,
                 <<"3">>,
                 <<"C", "o", "n", "c", "l", "u", "i+acute", "d", "o">>,
                 <<"C", "o", "n", "c", "l", "u", "i+acute", "d", "o">>,
                 <<>>,
                 <<"O", "t", "o">>),
      ListRecord(<<"P", "E", "R", "_", "E", "V", "A">>,
                 <<"E", "v", "a">>,
                 <<"T", "o", "d", "o", "s">>,
                 <<"C", "o", "n", "c", "l", "u", "i+acute", "d", "o">>,
                 <<"C", "o", "n", "c", "l", "u", "i+acute", "d", "o">>,
                 <<"O", "t", "o">>,
                 <<"O", "t", "o">>) }

\* files of up to MaxListRows records under the two full header lines
ListCsvFiles ==
    {CsvFile(layout, FALSE, recs) :
        layout \in Layouts,
        recs \in UNION {Records(ListRecords, n) : n \in 1..MaxListRows}}

\* texts typed in the search box
SearchTexts == {<<"a", "n", "a">>, <<" ">>}

\* the selections of the filters: the default one, which selects every
\* stage, episode and step and no responsible, and the ones that differ from
\* it in one filter
Selections(t, rows) ==
    LET eps == ListEpisodes(t).value
        all == [kinds |-> {"wip", "review", "todo"},
                eps |-> {eps[i] : i \in 1..Len(eps)},
                etapas |-> {"Concept", "Rig"},
                resps |-> {},
                q |-> <<>>]
    IN  {all}
        \cup {[all EXCEPT !.kinds = k] : k \in {{"wip"}, {}}}
        \cup {[all EXCEPT !.eps = e] :
                 e \in {{}} \cup {{eps[i]} : i \in 1..Len(eps)}}
        \cup {[all EXCEPT !.etapas = e] : e \in {{"Rig"}, {"Concept"}, {}}}
        \cup {[all EXCEPT !.resps = {n}] : n \in ListResponsibles(rows)}
        \cup {[all EXCEPT !.q = q] : q \in SearchTexts}

InitList ==
    /\ pc = "start"
    /\ csv \in ListCsvFiles
    /\ df = NoTable
    /\ all_eps = <<>>
    /\ base_exp = NoTable
    /\ exc = ""
    /\ TextIdle
    /\ ListIdle
    /\ ImgIdle
    /\ StatsIdle

\* line 435: tasks = build_open_tasks(df); without open tasks the tab shows
\* a notice and returns
BuildOpenTasks ==
    /\ pc = "exploded"
    /\ LET res == build_open_tasks(df)
       IN  IF res.exc # ""
           THEN /\ pc' = "crashed"
                /\ exc' = res.exc
                /\ UNCHANGED tasks
           ELSE /\ pc' = IF res.value = <<>> THEN "none" ELSE "tasks"
                /\ tasks' = res.value
                /\ UNCHANGED exc
    /\ UNCHANGED <<sel, agg, textVars, loadVars, imgVars, statsVars>>

\* lines 446-577: the filters are read and the filtered rows aggregated
Aggregate ==
    /\ pc = "tasks"
    /\ IF ListEpisodes(df).exc # ""
       THEN /\ pc' = "crashed"
            /\ exc' = ListEpisodes(df).exc
            /\ UNCHANGED <<sel, agg>>
       ELSE /\ \E s \in Selections(df, tasks) :
                  /\ sel' = s
                  /\ agg' \in Aggregated(Filtered(tasks, s))
            /\ pc' = "listed"
            /\ UNCHANGED exc
    /\ UNCHANGED <<tasks, textVars, loadVars, imgVars, statsVars>>

NextList ==
    \/ LoadDataframe
    \/ DetectEpisodes
    \/ BuildBaseExp
    \/ BuildOpenTasks
    \/ Aggregate

SpecList == InitList /\ [][NextList]_vars

(* Claims about the list tab                                               *)

\* C8, as stated: build_open_tasks returns a task table without raising for
\* every loaded table, also when a record with an open Concept or Rig stage
\* has the episode text "Todos" or an episode text without digits.
C8_AsStated == ~(pc = "crashed" /\ exc = "ValueError")

\* the identity key of a task row: the file id if not empty, else the
\* normalized name
IdentityKey(row) ==
    IF row.id # <<>> THEN <<"id", row.id>> ELSE <<"name", _norm(row.nome)>>

\* C10, as stated: the aggregation gives exactly one card for each identity
\* key among the filtered task rows, so rows of one file id under names
\* written differently give one card.
C10_AsStated ==
    pc = "listed" =>
        LET fil == Filtered(tasks, sel)
        IN  Len(agg) = Cardinality({IdentityKey(fil[i]) : i \in 1..Len(fil)})

(* app.py: the image index and the image of a character                    *)

\* s.replace(old, new), old not empty
RECURSIVE replace(_, _, _)
replace(s, old, new) ==
    IF Len(s) < Len(old) THEN s
    ELSE IF startswith(s, old)
    THEN new \o replace(SliceFrom(s, Len(old)), old, new)
    ELSE <<Head(s)>> \o replace(Tail(s), old, new)

ImageSuffixes == {".png", ".jpg", ".jpeg", ".webp", ".gif"}

IMG_DIR == <<"i", "m", "g", "/">>

\* str(p) for the file f of the directory
PathStr(f) == IMG_DIR \o f.stem \o f.suffix

\* the keys of the index, an index being the sequence of its (key, path)
\* entries in insertion order
Keys(idx) == {idx[i][1] : i \in 1..Len(idx)}

\* idx.get(k, "")
DictGet(idx, k) ==
    IF k \in Keys(idx)
    THEN idx[CHOOSE i \in 1..Len(idx) : idx[i][1] = k][2]
    ELSE <<>>

RECURSIVE IndexFiles(_, _)
IndexFiles(files, idx) ==
    IF files = <<>> THEN idx
    ELSE LET f == Head(files)
             k == norm_key(f.stem)
         IN  IF \/ Str(lower(f.suffix)) \notin ImageSuffixes
                \/ ~startswith(upper(f.stem), SVB_)
                \/ k = <<>>
                \/ k \in Keys(idx)
             THEN IndexFiles(Tail(files), idx)
             ELSE IndexFiles(Tail(files), Append(idx, <<k, PathStr(f)>>))

\* every image file is indexed, with or without the prefix
RECURSIVE IndexFiles_noprefix(_, _)
IndexFiles_noprefix(files, idx) ==
    IF files = <<>> THEN idx
    ELSE LET f == Head(files)
             k == norm_key(f.stem)
         IN  IF \/ Str(lower(f.suffix)) \notin ImageSuffixes
                \/ k = <<>>
                \/ k \in Keys(idx)
             THEN IndexFiles_noprefix(Tail(files), idx)
             ELSE IndexFiles_noprefix(Tail(files),
                                      Append(idx, <<k, PathStr(f)>>))

index_images_noprefix(dir) ==
    IF ~dir.is_dir THEN <<>> ELSE IndexFiles_noprefix(dir.files, <<>>)

index_images(dir) ==
    IF ~dir.is_dir THEN <<>> ELSE IndexFiles(dir.files, <<>>)

\* try_match(candidate_id)
try_match(idx, candidate_id) == DictGet(idx, norm_key(candidate_id))

\* the first result of try_match over the candidates that is not empty
RECURSIVE TryAll(_, _)
TryAll(idx, cands) ==
    IF cands = <<>> THEN <<>>
    ELSE IF try_match(idx, Head(cands)) # <<>>
    THEN try_match(idx, Head(cands))
    ELSE TryAll(idx, Tail(cands))

SVB_RIG_ == <<"S", "V", "B", "_", "R", "I", "G", "_">>

SVB_PER_ == <<"S", "V", "B", "_", "P", "E", "R", "_">>

\* the bare form is tried before the form of the other category
IdCandidates_barefirst(fid) ==
    LET up == upper(fid)
    IN  IF fid = <<>> \/ ~startswith(up, SVB_) THEN <<>>
        ELSE IF startswith(up, SVB_RIG_)
        THEN <<fid, SVB_ \o SliceFrom(fid, 8), SVB_PER_ \o SliceFrom(fid, 8)>>
        ELSE IF startswith(up, SVB_PER_)
        THEN <<fid, SVB_ \o SliceFrom(fid, 8), SVB_RIG_ \o SliceFrom(fid, 8)>>
        ELSE <<fid, SVB_RIG_ \o SliceFrom(fid, 4),
               SVB_PER_ \o SliceFrom(fid, 4)>>

\* lines 198-231: the identifiers tried for the file id, in order
IdCandidates(fid) ==
    LET up == upper(fid)
    IN  IF fid = <<>> \/ ~startswith(up, SVB_) THEN <<>>
        ELSE IF startswith(up, SVB_RIG_)
        THEN <<fid, SVB_PER_ \o SliceFrom(fid, 8), SVB_ \o SliceFrom(fid, 8)>>
        ELSE IF startswith(up, SVB_PER_)
        THEN <<fid, SVB_RIG_ \o SliceFrom(fid, 8), SVB_ \o SliceFrom(fid, 8)>>
        ELSE <<fid, SVB_RIG_ \o SliceFrom(fid, 4),
               SVB_PER_ \o SliceFrom(fid, 4)>>

StopWords == {<<"d", "e">>, <<"d", "a">>, <<"d", "o">>, <<"e">>, <<"c", "o", "m">>, <<"p", "a", "r", "a">>, <<"e", "m">>, <<"n", "a">>, <<"n", "o">>}

\* the length of the match of \b(de|da|do|e|com|para|em|na|no)\b at
\* position p of s, 0 without a match
StopWordAt(s, p) ==
    LET ws == {w \in StopWords :
                  /\ p + Len(w) - 1 <= Len(s)
                  /\ SubSeq(s, p, p + Len(w) - 1) = w
                  /\ Boundary(s, p - 1)
                  /\ Boundary(s, p + Len(w) - 1)}
    IN  IF ws = {} THEN 0 ELSE Len(CHOOSE w \in ws : TRUE)

\* line 241: s without the matches of the pattern, read from position i
RECURSIVE RemoveStopWords(_, _)
RemoveStopWords(s, i) ==
    IF i > Len(s) THEN <<>>
    ELSE IF StopWordAt(s, i) > 0
    THEN RemoveStopWords(s, i + StopWordAt(s, i))
    ELSE <<s[i]>> \o RemoveStopWords(s, i + 1)

\* special_cases.get(k, [])
special_cases(key_) ==
    LET k == Str(key_)
    IN
    CASE k = "tia_rebimboca_de_mochila" ->
          << <<"t", "i", "a", "_", "r", "e", "b", "i", "m", "b", "o", "c", "a">>,
             <<"r", "e", "b", "i", "m", "b", "o", "c", "a">>,
             <<"r", "e", "b", "i", "_", "m", "o", "c", "h", "i", "l", "a">> >>
      [] k = "tia_rebimboca" ->
          << <<"r", "e", "b", "i", "m", "b", "o", "c", "a">>,
             <<"r", "e", "b", "i">> >>
      [] k = "pepe_pescador" ->
          << <<"p", "e", "p", "e", "_", "p", "e", "s", "c", "a", "d", "o", "r">>,
             <<"p", "e", "p", "e">> >>
      [] k = "seu_tonho" ->
          << <<"s", "e", "u", "t", "o", "n", "h", "o">> >>
      [] k = "xico_apicultor" ->
          << <<"x", "i", "c", "o", "_", "a", "p", "i", "c", "u", "l", "t", "o", "r">>,
             <<"x", "i", "c", "o">> >>
      [] k = "xico_rio" ->
          << <<"x", "i", "c", "o", "_", "r", "i", "o">>,
             <<"x", "i", "c", "o">> >>
      [] OTHER -> <<>>

\* the end of the run of "_" and white space that starts at i
RECURSIVE SepRunEnd(_, _)
SepRunEnd(s, i) ==
    IF i <= Len(s) /\ s[i] \in Whitespace \cup {"_"}
    THEN SepRunEnd(s, i + 1) ELSE i - 1

\* re.split("[_\s]+", s), read from position i, the piece begun at start
RECURSIVE SplitWords(_, _, _)
SplitWords(s, start, i) ==
    IF i > Len(s) THEN <<SubSeq(s, start, Len(s))>>
    ELSE IF s[i] \in Whitespace \cup {"_"}
    THEN <<SubSeq(s, start, i - 1)>>
         \o SplitWords(s, SepRunEnd(s, i) + 1, SepRunEnd(s, i) + 1)
    ELSE SplitWords(s, start, i + 1)

\* lines 235-266: the variants of the name, and its words
Words(nm) ==
    SelectSeq(SplitWords(norm_key(nm), 1, 1), LAMBDA w : Len(w) >= 3)

NameVariants(nm) ==
    LET name_norm == norm_key(nm)
        name_clean_norm == norm_key(RemoveStopWords(lower(nm), 1))
        words == Words(nm)
    IN  <<name_norm>>
        \o (IF name_clean_norm # name_norm THEN <<name_clean_norm>> ELSE <<>>)
        \o special_cases(name_clean_norm)
        \o (IF Len(words) >= 2
            THEN <<words[1] \o <<"_">> \o words[2]>> ELSE <<>>)
        \o (IF words # <<>> THEN <<words[1]>> ELSE <<>>)

\* the key of an entry without the prefixes of identifiers
FileNameParts(idx_key) ==
    replace(replace(replace(idx_key,
        lower(SVB_RIG_), <<>>), lower(SVB_PER_), <<>>), lower(SVB_), <<>>)

\* for v in vs: for idx_key, path in idx.items(): if Hit(v, idx_key):
\* return path
FirstHit(idx, vs, Hit(_, _)) ==
    LET hits == {<<n, i>> \in (1..Len(vs)) \X (1..Len(idx)) :
                    Hit(vs[n], idx[i][1])}
        first == CHOOSE h \in hits : \A g \in hits :
                    h[1] < g[1] \/ (h[1] = g[1] /\ h[2] <= g[2])
    IN  IF hits = {} THEN <<>> ELSE idx[first[2]][2]

\* for idx_key, path in idx.items(): for v in vs: if Hit(v, idx_key):
\* return path
FirstHitByEntry(idx, vs, Hit(_, _)) ==
    LET hits == {i \in 1..Len(idx) : \E n \in 1..Len(vs) : Hit(vs[n], idx[i][1])}
    IN  IF hits = {} THEN <<>>
        ELSE idx[CHOOSE i \in hits : \A j \in hits : i <= j][2]

\* the entries are scanned in the outer loop and the variants in the inner
NameMatch_entryfirst(idx, nm) ==
    LET vs == NameVariants(nm)
        exact == FirstHitByEntry(idx, vs, LAMBDA v, k : v = FileNameParts(k))
        partial == FirstHitByEntry(idx, vs, LAMBDA v, k :
                      \/ (Contains(FileNameParts(k), v) /\ Len(v) >= 4)
                      \/ (Contains(v, FileNameParts(k))
                          /\ Len(FileNameParts(k)) >= 4))
        byPart == FirstHitByEntry(idx,
                      SelectSeq(Words(nm), LAMBDA w : Len(w) >= 4),
                      LAMBDA w, k : Contains(k, w))
    IN  IF exact # <<>> THEN exact
        ELSE IF partial # <<>> THEN partial
        ELSE byPart

\* the substring step and the step of the words take fragments of any length
NameMatch_nolength(idx, nm) ==
    LET vs == NameVariants(nm)
        exact == FirstHit(idx, vs, LAMBDA v, k : v = FileNameParts(k))
        partial == FirstHit(idx, vs, LAMBDA v, k :
                      \/ Contains(FileNameParts(k), v)
                      \/ Contains(v, FileNameParts(k)))
        byPart == FirstHit(idx, Words(nm), LAMBDA w, k : Contains(k, w))
    IN  IF exact # <<>> THEN exact
        ELSE IF partial # <<>> THEN partial
        ELSE byPart

\* lines 269-293: the path found for the name
NameMatch(idx, nm) ==
    LET vs == NameVariants(nm)
        exact == FirstHit(idx, vs, LAMBDA v, k : v = FileNameParts(k))
        partial == FirstHit(idx, vs, LAMBDA v, k :
                      \/ (Contains(FileNameParts(k), v) /\ Len(v) >= 4)
                      \/ (Contains(v, FileNameParts(k))
                          /\ Len(FileNameParts(k)) >= 4))
        byPart == FirstHit(idx, SelectSeq(Words(nm), LAMBDA w : Len(w) >= 4),
                           LAMBDA w, k : Contains(k, w))
    IN  IF exact # <<>> THEN exact
        ELSE IF partial # <<>> THEN partial
        ELSE byPart

\* lines 197-295, for the stripped file id and name
Cascade(idx, fid, nm) ==
    IF TryAll(idx, IdCandidates(fid)) # <<>>
    THEN TryAll(idx, IdCandidates(fid))
    ELSE IF nm # <<>> THEN NameMatch(idx, nm)
    ELSE <<>>

\* find_image_for with file_id.strip() and name.strip() at lines 190-191
find_image_for_noguard(idx, fid, nm) ==
    IF fid \in {None, NaN} \/ nm \in {None, NaN}
    THEN Failure("AttributeError")
    ELSE Value(Cascade(idx, strip(fid), strip(nm)))

\* (file_id or "") is file_id itself when it is not a str and not None,
\* and only a str has strip()
find_image_for(idx, fid, nm) ==
    IF fid = NaN \/ nm = NaN THEN Failure("AttributeError")
    ELSE Value(Cascade(idx, strip(Or(fid, <<>>)), strip(Or(nm, <<>>))))

(* Specification of the image lookup: the directory is indexed, then the   *)
(* image of a character is looked up by file id and name.                  *)

MaxFiles == 2

File(stem, suffix) == [stem |-> stem, suffix |-> suffix]

ImageFiles ==
    { File(<<"S", "V", "B", "_", "R", "I", "G", "_", "M", "U", "R", "I", "E", "L">>,
           <<".", "p", "n", "g">>),
      File(<<"S", "V", "B", "_", "P", "E", "R", "_", "M", "U", "R", "I", "E", "L">>,
           <<".", "J", "P", "G">>),
      File(<<"S", "V", "B", "_", "M", "U", "R", "I", "E", "L">>,
           <<".", "p", "n", "g">>),
      File(<<"S", "V", "B", "_", "R", "I", "G", "_", "P", "E", "P", "E", "_", "P", "E", "S", "C", "A", "D", "O", "R">>,
           <<".", "p", "n", "g">>),
      File(<<"m", "u", "r", "i", "e", "l">>,
           <<".", "p", "n", "g">>),
      File(<<"S", "V", "B", "_", "R", "I", "G", "_", "C", "A", "R", "I", "B", "E+acute">>,
           <<".", "t", "x", "t">>),
      File(<<"S", "V", "B", "_", "A", "N", "A">>,
           <<".", "g", "i", "f">>) }

\* the listings of n different files
RECURSIVE Listings(_)
Listings(n) ==
    IF n = 0 THEN {<<>>}
    ELSE {Append(fs, f) : fs \in Listings(n - 1), f \in ImageFiles}

ImageDirs ==
    {NoDir} \cup
    {[is_dir |-> TRUE, files |-> fs] :
        fs \in {l \in UNION {Listings(n) : n \in 0..MaxFiles} :
                   \A i, j \in 1..Len(l) : l[i] = l[j] => i = j}}

FileIds ==
    { None,
      <<>>,
      <<"S", "V", "B", "_", "R", "I", "G", "_", "M", "U", "R", "I", "E", "L">>,
      <<"s", "v", "b", "_", "p", "e", "r", "_", "m", "u", "r", "i", "e", "l", " ">>,
      <<"S", "V", "B", "_", "M", "U", "R", "I", "E", "L">>,
      <<"S", "V", "B", "_", "R", "I", "G", "_", "X", "X">>,
      <<"R", "I", "G", "_", "M", "U", "R", "I", "E", "L">>,
      <<"S", "V", "B", "_", "P", "E", "P", "E">> }

CharNames ==
    { None,
      <<>>,
      <<"M", "u", "r", "i", "e", "l">>,
      <<"P", "e", "p", "e", " ", "P", "e", "s", "c", "a", "d", "o", "r">>,
      <<"A", "n", "a", " ", "e", " ", "B", "i", "a">>,
      <<"M", "u", "r", "i">>,
      <<"C", "a", "r", "i", "b", "e+acute">>,
      <<"T", "i", "a", " ", "R", "e", "b", "i", "m", "b", "o", "c", "a", " ", "d", "e", " ", "M", "o", "c", "h", "i", "l", "a">> }

InitImg ==
    /\ pc = "dir"
    /\ img_dir \in ImageDirs
    /\ file_id \in FileIds
    /\ char_name \in CharNames
    /\ img_idx = <<>>
    /\ img_path = <<>>
    /\ cache = {}
    /\ exc = ""
    /\ TextIdle
    /\ LoadIdle
    /\ ListIdle
    /\ StatsIdle

\* line 427: the index of the image directory
IndexImages ==
    /\ pc = "dir"
    /\ img_idx' = index_images(img_dir)
    /\ pc' = "indexed"
    /\ UNCHANGED <<img_dir, file_id, char_name, img_path, cache, exc,
                   textVars, loadVars, listVars, statsVars>>

\* path = find_image_for(img_index, fid, name)
FindImageFor ==
    /\ pc = "indexed"
    /\ LET res == find_image_for(img_idx, file_id, char_name)
       IN  IF res.exc # ""
           THEN /\ pc' = "crashed"
                /\ exc' = res.exc
                /\ UNCHANGED img_path
           ELSE /\ pc' = "resolved"
                /\ img_path' = res.value
                /\ UNCHANGED exc
    /\ UNCHANGED <<img_dir, img_idx, file_id, char_name, cache,
                   textVars, loadVars, listVars, statsVars>>

NextImg == IndexImages \/ FindImageFor

SpecImg == InitImg /\ [][NextImg]_vars

(* Claims about the image lookup                                           *)

MURIEL_ID == <<"S", "V", "B", "_", "R", "I", "G", "_", "M", "U", "R", "I", "E", "L">>

MURIEL_NAME == <<"M", "u", "r", "i", "e", "l">>

MURIEL_KEY == <<"s", "v", "b", "r", "i", "g", "m", "u", "r", "i", "e", "l">>

\* C9: find_image_for never raises, for a str or None file id and name and
\* every index, the empty one too; its result is "" or a path stored in the
\* index; it is "" when the index is empty or when file id and name are both
\* None or blank; and for the file id "SVB_RIG_MURIEL" and the name "Muriel"
\* it is the path stored under the key "svbrigmuriel" when the index has
\* that key.
C9_NeverThrowsStoredPath ==
    /\ pc # "crashed"
    /\ pc = "resolved" =>
          /\ img_path = <<>> \/ \E i \in 1..Len(img_idx) : img_idx[i][2] = img_path
          /\ img_idx = <<>> => img_path = <<>>
          /\ (/\ strip(Or(file_id, <<>>)) = <<>>
              /\ strip(Or(char_name, <<>>)) = <<>>) => img_path = <<>>
          /\ (/\ file_id = MURIEL_ID
              /\ char_name = MURIEL_NAME
              /\ MURIEL_KEY \in Keys(img_idx))
             => img_path = DictGet(img_idx, MURIEL_KEY)

\* the lookup of "SVB_RIG_MURIEL", "Muriel" has returned the path stored
\* under "svbrigmuriel" in an index that has other entries too
C9_Witness ==
    /\ pc = "resolved"
    /\ file_id = MURIEL_ID
    /\ char_name = MURIEL_NAME
    /\ MURIEL_KEY \in Keys(img_idx)
    /\ Len(img_idx) > 1
    /\ img_path = DictGet(img_idx, MURIEL_KEY)
    /\ img_path # <<>>

(* stats.py: overall statistics                                            *)

\* _norm_key of stats.py
_norm_key(s) ==
    IF s = None THEN <<>>
    ELSE SelectSeq(NFD(lower(strip(str(s)))),
                   LAMBDA ch : ch \in AsciiLower \cup AsciiDigit)

\* row.get(col, "")
RowGet(t, r, col) == IF HasColumn(t, col) THEN Cell(t, r, col) ELSE <<>>

UNIQ == <<"_", "_", "U", "N", "I", "Q", "_", "_">>

\* lines 28-32: the key of every row, the normalized id or else the
\* normalized name
UniqKeys(t, id_col, name_col) ==
    [r \in 1..Len(t.data) |->
        Or(IF Falsy(id_col) THEN <<>> ELSE _norm_key(RowGet(t, r, id_col)),
           IF Falsy(name_col) THEN <<>> ELSE _norm_key(RowGet(t, r, name_col)))]

\* lines 33-36: the key column is added and drop_duplicates keeps the first
\* row of every key
DropDuplicates(t, keys) ==
    LET kept == SelectSeq(Positions(Len(keys)),
                          LAMBDA r : \A q \in 1..(r - 1) : keys[q] # keys[r])
    IN  [columns |-> Append(t.columns, UNIQ),
         data |-> [i \in 1..Len(kept) |->
                     [t.data[kept[i]] EXCEPT
                         !.cells = Append(@, keys[kept[i]])]]]

\* the rows are keyed by their raw id or name
_dedup_df_rawkey(t, id_col, name_col) ==
    IF \/ (~Falsy(id_col) /\ HasColumn(t, id_col))
       \/ (~Falsy(name_col) /\ HasColumn(t, name_col))
    THEN DropDuplicates(t, [r \in 1..Len(t.data) |->
                               Or(str(RowGet(t, r, id_col)),
                                  str(RowGet(t, r, name_col)))])
    ELSE t

_dedup_df(t, id_col, name_col) ==
    IF \/ (~Falsy(id_col) /\ HasColumn(t, id_col))
       \/ (~Falsy(name_col) /\ HasColumn(t, name_col))
    THEN DropDuplicates(t, UniqKeys(t, id_col, name_col))
    ELSE t

\* the exact value of part / total * 100.0, as a fraction
_pct(part, total) ==
    IF total # 0 THEN [num |-> part * 100, den |-> total]
    ELSE [num |-> 0, den |-> 1]

\* int(dfx[col].map(is_concluido).sum())
CountDone(dfx, cols) ==
    IF \A i \in 1..Len(cols) : HasColumn(dfx, cols[i])
    THEN Cardinality({r \in 1..Len(dfx.data) :
             \A i \in 1..Len(cols) : is_concluido(Cell(dfx, r, cols[i]))})
    ELSE 0

\* lines 43-55
StatsOf(dfx, col_status_conc, col_status_rig) ==
    [total |-> Len(dfx.data),
     concept_done |-> CountDone(dfx, <<col_status_conc>>),
     rig_done |-> CountDone(dfx, <<col_status_rig>>),
     both_done |-> CountDone(dfx, <<col_status_conc, col_status_rig>>),
     concept_pct |-> _pct(CountDone(dfx, <<col_status_conc>>),
                          Len(dfx.data)),
     rig_pct |-> _pct(CountDone(dfx, <<col_status_rig>>), Len(dfx.data)),
     both_pct |-> _pct(CountDone(dfx, <<col_status_conc, col_status_rig>>),
                       Len(dfx.data))]

\* is_concluido is the function of app.py, the only one the script passes
overall_stats(t, col_status_conc, col_status_rig, id_col, name_col) ==
    StatsOf(_dedup_df(t, id_col, name_col), col_status_conc, col_status_rig)

(* Specification of a run of the script up to the statistics tab: the      *)
(* table is loaded and exploded as above, then the overall statistics are  *)
(* computed over the loaded table. Status cells are texts.                 *)

MaxStatsRows == 3

StatsRecord(id, nm, st_c, st_r) ==
    [id |-> id, name |-> nm, alt_name |-> nm, ep |-> <<"1">>,
     st_c |-> st_c, st_r |-> st_r]

Concluido == <<"C", "o", "n", "c", "l", "u", "i+acute", "d", "o">>

EmAndamento == <<"E", "m", " ", "A", "n", "d", "a", "m", "e", "n", "t", "o">>

StatsRecords ==
    { StatsRecord(<<"S", "V", "B", "_", "A", "N", "A">>, <<"A", "n", "a">>,
                  Concluido, EmAndamento),
      StatsRecord(<<"S", "V", "B", "_", "A", "N", "A">>, <<"A", "N", "A">>,
                  EmAndamento, Concluido),
      StatsRecord(<<"s", "v", "b", "-", "a", "n", "a">>, <<"B", "i", "a">>,
                  Concluido, Concluido),
      StatsRecord(<<>>, <<"B", "i", "a">>, Concluido, Concluido),
      StatsRecord(<<"-">>, <<"B", "I", "A", ".">>, EmAndamento, EmAndamento),
      StatsRecord(<<"B", "i", "a">>, <<"E", "v", "a">>, <<>>, Concluido),
      StatsRecord(<<>>, <<>>, <<"c", "o", "n", "c", "l", "u", "i", "d", "o", " ">>,
                  <<>>) }

\* files of up to MaxStatsRows records under the two full header lines
StatsCsvFiles ==
    {CsvFile(layout, FALSE, recs) :
        layout \in Layouts,
        recs \in UNION {Records(StatsRecords, n) : n \in 1..MaxStatsRows}}

InitStats ==
    /\ pc = "start"
    /\ csv \in StatsCsvFiles
    /\ df = NoTable
    /\ all_eps = <<>>
    /\ base_exp = NoTable
    /\ exc = ""
    /\ TextIdle
    /\ ListIdle
    /\ ImgIdle
    /\ StatsIdle

\* app.py 969
OverallStats ==
    /\ pc = "exploded"
    /\ ov' = overall_stats(df, COL_STATUS_CONCEPT, COL_STATUS_RIG,
                           COL_FILE_ID, COL_NAME)
    /\ pc' = "stats"
    /\ UNCHANGED <<exp, ep_df, exc, textVars, loadVars, listVars, imgVars>>

NextStats ==
    \/ LoadDataframe
    \/ DetectEpisodes
    \/ BuildBaseExp
    \/ OverallStats

SpecStats == InitStats /\ [][NextStats]_vars

(* Claims about the statistics                                             *)

\* the identity key of the record r of the loaded table: the normalized
\* file id when it is not empty, else the normalized name
StatsKey(r) ==
    IF _norm_key(Cell(df, r, COL_FILE_ID)) # <<>>
    THEN _norm_key(Cell(df, r, COL_FILE_ID))
    ELSE _norm_key(Cell(df, r, COL_NAME))

\* the first record of every identity key
FirstOfKey ==
    {r \in 1..Len(df.data) : \A q \in 1..(r - 1) : StatsKey(q) # StatsKey(r)}

\* C11: the total of overall_stats is the number of distinct identity keys
\* of the records, and the statuses counted are the ones of the first record
\* of every key.
C11_TotalIsDistinctKeys ==
    pc = "stats" =>
        /\ ov.total = Cardinality({StatsKey(r) : r \in 1..Len(df.data)})
        /\ ov.concept_done = Cardinality({r \in FirstOfKey :
               is_concluido(Cell(df, r, COL_STATUS_CONCEPT))})
        /\ ov.rig_done = Cardinality({r \in FirstOfKey :
               is_concluido(Cell(df, r, COL_STATUS_RIG))})
        /\ ov.both_done = Cardinality({r \in FirstOfKey :
               /\ is_concluido(Cell(df, r, COL_STATUS_CONCEPT))
               /\ is_concluido(Cell(df, r, COL_STATUS_RIG))})

\* two records of one file id whose names differ in case only and whose
\* statuses differ were counted as one
C11_Witness ==
    /\ pc = "stats"
    /\ \E r1, r2 \in 1..Len(df.data) :
          /\ r1 < r2
          /\ Cell(df, r1, COL_FILE_ID) = Cell(df, r2, COL_FILE_ID)
          /\ Cell(df, r1, COL_FILE_ID) # <<>>
          /\ Cell(df, r1, COL_NAME) # Cell(df, r2, COL_NAME)
          /\ lower(Cell(df, r1, COL_NAME)) = lower(Cell(df, r2, COL_NAME))
          /\ is_concluido(Cell(df, r1, COL_STATUS_CONCEPT))
          /\ ~is_concluido(Cell(df, r2, COL_STATUS_CONCEPT))
    /\ ov.total < Len(df.data)
    /\ ov.concept_done = 1
    /\ ov.rig_done = 0

(* Specification of the renaming of one header: a header text, as pandas   *)
(* names the column, is mapped by _rename_headers_for_schema.              *)

MaxPad == 1

\* header texts: the names of the two layouts and spellings of the
\* responsible and delivery headers
HeaderBases ==
    { COL_EP, COL_NAME, COL_FILE_ID, COL_RIG_LINK, COL_SYNCSKETCH,
      COL_CONCEPT_LINK, COL_URG_CONCEPT, COL_STATUS_CONCEPT,
      COL_RESP_CONCEPT, COL_STATUS_RIG, COL_RESP_RIG, COL_COMMENTS,
      COL_DATE_CONCEPT, COL_DATE_RIG,
      HDR_EPS, HDR_NOME, HDR_ID, HDR_LINK_RIG, HDR_SYNC_SKETCH,
      HDR_LINKS_CONCEPT, HDR_URGENCIA, HDR_STATUS_CONCEPT, HDR_STATUS_RIG,
      HDR_RESPONSAVEL, HDR_ENTREGA, HDR_VETORIZACAO, HDR_MODEL_SHEET,
      HDR_PERSONAGEM,
      <<"r", "e", "s", "p", "o", "n", "s", "a", "v", "e", "l">>,
      <<"R", "E", "S", "P", "O", "N", "D", "A", "V", "E", "L">>,
      <<"R", "e", "s", "p", "o", "n", "s", "a", "+acute", "v", "e", "l">>,
      <<"R", "e", "s", "p", "o", "n", "-", "s", "a+acute", "v", "e", "l", ":">>,
      <<"R", "e", "s", "p", "o", "n", "s", "a+acute", "v", "e", "i", "s">>,
      <<"E", "n", "t", "r", "e", "g", "a">>,
      <<"e", "n", "t", "r", "e", "g", "a", ":">>,
      <<"E", "n", "t", "r", "e", "g", "a", "s">> }

Blanks(n) == [i \in 1..n |-> " "]

\* the suffix pandas gives to the first and to the second repetition of a
\* header
HeaderSuffixes == {<<>>, <<".", "1">>, <<".", "2">>}

Headers ==
    {Blanks(l) \o b \o Blanks(r) \o suf :
        l \in 0..MaxPad, r \in 0..MaxPad, b \in HeaderBases,
        suf \in HeaderSuffixes}

InitHeader ==
    /\ pc = "header"
    /\ txt \in Headers
    /\ epList = <<>>
    /\ key = <<>>
    /\ key2 = <<>>
    /\ status_kind = ""
    /\ exc = ""
    /\ LoadIdle
    /\ ListIdle
    /\ ImgIdle
    /\ StatsIdle

\* app.py 324-361: the name the column of header txt is given
RenameHeader ==
    /\ pc = "header"
    /\ key' = HeaderTarget(txt)
    /\ pc' = "renamed"
    /\ UNCHANGED <<txt, epList, key2, status_kind,
                   exc, loadVars, listVars, imgVars,
                   statsVars>>

NextHeader == RenameHeader

SpecHeader == InitHeader /\ [][NextHeader]_vars

(* Claims about the header mapping                                         *)

\* the text of the header without the suffix ".1"
BaseText(h) ==
    IF endswith(h, <<".", "1">>) THEN SubSeq(h, 1, Len(h) - 2) ELSE h

IsResponsibleSynonym(b) ==
    Str(norm_key(b)) \in {"responsavel", "respondavel"}

IsDeliverySynonym(b) == Str(norm_key(b)) = "entrega"

\* C12: a header whose base text normalizes to a responsible synonym maps
\* to the Rig responsible column without the suffix ".1" and to the Concept
\* responsible column with it; a delivery header maps to the Rig date
\* without the suffix and to the Concept date with it.
C12_PairsBySuffix ==
    pc = "renamed" =>
        /\ IsResponsibleSynonym(BaseText(txt)) =>
              key = IF endswith(txt, <<".", "1">>)
                    THEN COL_RESP_CONCEPT ELSE COL_RESP_RIG
        /\ IsDeliverySynonym(BaseText(txt)) =>
              key = IF endswith(txt, <<".", "1">>)
                    THEN COL_DATE_CONCEPT ELSE COL_DATE_RIG

\* the second "RESPONSÁVEL" header of the sheet, followed by a blank, was
\* mapped to the Concept responsible column
C12_Witness ==
    /\ pc = "renamed"
    /\ txt = HDR_RESPONSAVEL \o <<" ", ".", "1">>
    /\ key = COL_RESP_CONCEPT

(* Specification of the load of a file of the new layout, whose headers    *)
(* "STATUS CONCEPT" and "VETORIZAÇÃO" both map to the Concept status: the  *)
(* two columns are collapsed into one.                                     *)

MaxCollapseRows == 2

\* the record has the cell a under "STATUS CONCEPT" and b under "VETORIZAÇÃO"
CollapseRecords ==
    {[ep |-> <<"1">>, blank |-> a, st_c |-> b] :
        a \in {<<>>, <<"1">>, <<" ">>,
               <<"P", "e", "n", "d", "e", "n", "t", "e">>},
        b \in {<<>>, <<"2">>, <<" ", " ">>, Concluido}}

CollapseCsvFiles ==
    {CsvFile(NewLayout, FALSE, recs) :
        recs \in UNION {Records(CollapseRecords, n) :
                           n \in 1..MaxCollapseRows}}

InitCollapse ==
    /\ pc = "start"
    /\ csv \in CollapseCsvFiles
    /\ df = NoTable
    /\ all_eps = <<>>
    /\ base_exp = NoTable
    /\ exc = ""
    /\ TextIdle
    /\ ListIdle
    /\ ImgIdle
    /\ StatsIdle

NextCollapse == LoadDataframe

SpecCollapse == InitCollapse /\ [][NextCollapse]_vars

(* Claims about the collapse of duplicate columns                          *)

\* the cells of the record r in the columns that were renamed to name, in
\* column order, as read from the file
DuplicateCells(r, name) ==
    LET t == _rename_headers_for_schema(ReadWithHeaderRetry(csv))
        same == SelectSeq(Positions(Len(t.columns)),
                          LAMBDA j : t.columns[j] = name)
    IN  [k \in 1..Len(same) |-> t.data[r].cells[same[k]]]

\* the first item of the sequence that satisfies the test
FirstSuch(cells, ok) ==
    cells[CHOOSE k \in 1..Len(cells) :
             ok[k] /\ \A q \in 1..(k - 1) : ~ok[q]]

\* the first non-empty string if there is one, otherwise the first
\* non-missing value that is not a string, otherwise the empty string
StringsFirst(cells) ==
    LET text == [k \in 1..Len(cells) |->
                    IsStrCell(cells[k]) /\ strip(cells[k]) # <<>>]
        other == [k \in 1..Len(cells) |->
                    ~IsStrCell(cells[k]) /\ notna(cells[k])]
    IN  IF \E k \in 1..Len(cells) : text[k] THEN FirstSuch(cells, text)
        ELSE IF \E k \in 1..Len(cells) : other[k]
        THEN FirstSuch(cells, other)
        ELSE <<>>

\* C13, as stated: the collapsed column holds in every row the first
\* non-empty string among the duplicates in column order if there is one,
\* otherwise the first non-missing value that is not a string, otherwise the
\* empty string.
C13_AsStated ==
    pc = "loaded" =>
        \A r \in 1..Len(df.data) :
            Cell(df, r, COL_STATUS_CONCEPT)
                = StringsFirst(DuplicateCells(r, COL_STATUS_CONCEPT))

(* Specification of the classification of one status text.                 *)

MaxStatusWords == 2

\* words of status texts: the keywords of the four kinds in the spellings
\* of the sheet, and words of no kind
StatusWords ==
    { Concluido,
      <<"C", "O", "N", "C", "L", "U", "I+acute", "D", "O">>,
      EmAndamento,
      <<"E", "m", " ", "p", "r", "o", "d", "u", "c+cedil", "a+tilde", "o">>,
      <<"p", "r", "o", "g", "r", "e", "s", "s", "o">>,
      <<"P", "e", "n", "d", "e", "n", "t", "e", " ", "d", "e", " ",
        "r", "e", "v", "i", "s", "a+tilde", "o">>,
      <<"A", "n", "a+acute", "l", "i", "s", "e">>,
      <<"N", "a+tilde", "o", " ", "i", "n", "i", "c", "i", "a", "d", "o">>,
      <<"n", "a", "o", "_", "i", "n", "i", "c", "i", "a", "d", "a">>,
      <<"P", "a", "u", "s", "a", "d", "o">>,
      <<"c", "o", "n", "c", "l", "u", "i">>,
      <<"-">> }

\* the texts of up to n words, joined by a blank
RECURSIVE StatusTexts(_)
StatusTexts(n) ==
    IF n = 0 THEN {<<>>}
    ELSE StatusTexts(n - 1)
         \cup {IF t = <<>> THEN w ELSE t \o <<" ">> \o w :
                  t \in StatusTexts(n - 1), w \in StatusWords}

\* the values of a status cell: texts, a missing value and numbers
StatusValues ==
    StatusTexts(MaxStatusWords) \cup {None, NaN, PyInt(0), PyFloat(1)}

InitStatus ==
    /\ pc = "status"
    /\ txt \in StatusValues
    /\ epList = <<>>
    /\ key = <<>>
    /\ key2 = <<>>
    /\ status_kind = ""
    /\ exc = ""
    /\ LoadIdle
    /\ ListIdle
    /\ ImgIdle
    /\ StatsIdle

\* list_tab.py 43-57, with the normalized text of line 45
StatusKind ==
    /\ pc = "status"
    /\ key' = _norm(txt)
    /\ status_kind' = _status_kind(txt)
    /\ pc' = "classified"
    /\ UNCHANGED <<txt, epList, key2, exc, loadVars, listVars, imgVars,
                   statsVars>>

NextStatus == StatusKind

SpecStatus == InitStatus /\ [][NextStatus]_vars

(* Claims about the status classifier                                      *)

\* the kinds in the order they are tested, each with its keywords
KindOrder ==
    << <<"done", {DoneKeyword}>>, <<"review", ReviewKeywords>>,
       <<"wip", WipKeywords>>, <<"todo", TodoKeywords>> >>

\* the normalized text k contains a keyword of the i-th kind
HasKeyword(k, i) == \E w \in KindOrder[i][2] : Contains(k, w)

\* C14: the kind of a status text is the first of done, review (in_review),
\* wip (in_progress), todo (not_started) that has a keyword contained in
\* the normalized text, and other when none has; "Concluído" is done,
\* "Em Andamento" is wip, and a text with a review keyword and an
\* in-progress keyword is review.
C14_FirstKindWins ==
    pc = "classified" =>
        /\ \A i \in 1..Len(KindOrder) :
              (HasKeyword(key, i) /\ \A j \in 1..(i - 1) : ~HasKeyword(key, j))
                  => status_kind = KindOrder[i][1]
        /\ (\A i \in 1..Len(KindOrder) : ~HasKeyword(key, i))
              => status_kind = "other"
        /\ txt = Concluido => status_kind = "done"
        /\ txt = EmAndamento => status_kind = "wip"

\* a text with an in-progress keyword followed by a review keyword was
\* classified as review
C14_Witness ==
    /\ pc = "classified"
    /\ txt = EmAndamento \o <<" ">>
               \o <<"A", "n", "a+acute", "l", "i", "s", "e">>
    /\ HasKeyword(key, 2)
    /\ HasKeyword(key, 3)
    /\ status_kind = "review"

(* Specification of the merge of the responsibles of a group: the          *)
(* responsible fields of the rows of the group are split into names and    *)
(* the names are merged (list_tab.py 505-514).                             *)

MaxNameTokens == 3

PersonNames ==
    { <<"A", "n", "a">>, <<"A", "N", "A">>, <<"B", "r", "u", "n", "o">>,
      <<"C", "a", "r", "l", "a">> }

SeparatorTokens ==
    { <<",">>, <<";">>, <<"/">>, <<"&">>, <<"+">>, <<"e">>,
      <<"a", "n", "d">> }

\* a token as it is written after other text: a comma and a semicolon
\* follow the text directly, a plus sign stands between its neighbours
\* without blanks, the others are set off by a blank
Glued(before, tok) ==
    IF before = <<>> THEN tok
    ELSE IF tok \in {<<",">>, <<";">>, <<"+">>} \/ before[Len(before)] = "+"
    THEN before \o tok
    ELSE before \o <<" ">> \o tok

\* the texts of up to n tokens
RECURSIVE ResponsibleTexts(_)
ResponsibleTexts(n) ==
    IF n = 0 THEN {<<>>}
    ELSE ResponsibleTexts(n - 1)
         \cup {Glued(t, tok) : t \in ResponsibleTexts(n - 1),
                               tok \in PersonNames \cup SeparatorTokens}

AnaBrunoCarla ==
    <<"A", "n", "a", " ", "/", " ", "B", "r", "u", "n", "o", " ", "e", " ",
      "C", "a", "r", "l", "a">>

\* the responsible fields of the other rows of the group
OtherFields ==
    { <<>>,
      << <<"A", "N", "A", ",", " ", "C", "a", "r", "l", "a">> >> }

\* the responsible fields of the rows of a group, in the order of the rows
GroupFields ==
    {<<t>> \o o :
        t \in ResponsibleTexts(MaxNameTokens) \cup {AnaBrunoCarla},
        o \in OtherFields}

InitNames ==
    /\ pc = "fields"
    /\ txt \in GroupFields
    /\ epList = <<>>
    /\ key = <<>>
    /\ key2 = <<>>
    /\ status_kind = ""
    /\ exc = ""
    /\ LoadIdle
    /\ ListIdle
    /\ ImgIdle
    /\ StatsIdle

\* list_tab.py 506-509: key' holds the names of every field, epList' the
\* merged names and key2' the text shown
MergeResponsibles ==
    /\ pc = "fields"
    /\ key' = [i \in 1..Len(txt) |-> _split_names(txt[i])]
    /\ epList' = _dedupe_preserve(Flatten(key'))
    /\ key2' = JoinComma(epList')
    /\ pc' = "merged"
    /\ UNCHANGED <<txt, status_kind, exc, loadVars, listVars, imgVars,
                   statsVars>>

NextNames == MergeResponsibles

SpecNames == InitNames /\ [][NextNames]_vars

(* Claims about the responsibles                                           *)

\* the words of a text: the separator characters, each a word of its own,
\* and the runs of other characters between blanks
RECURSIVE WordsOf(_, _)
WordsOf(s, cur) ==
    LET done == IF cur = <<>> THEN <<>> ELSE <<cur>>
    IN  IF s = <<>> THEN done
        ELSE IF Head(s) \in Whitespace THEN done \o WordsOf(Tail(s), <<>>)
        ELSE IF Head(s) \in {",", ";", "/", "&", "+"}
        THEN done \o <<<<Head(s)>>>> \o WordsOf(Tail(s), <<>>)
        ELSE WordsOf(Tail(s), Append(cur, Head(s)))

IsSeparatorWord(w) ==
    \/ w \in {<<",">>, <<";">>, <<"/">>, <<"&">>, <<"+">>}
    \/ lower(w) \in {<<"e">>, <<"a", "n", "d">>}

\* the names of a sequence of words: the runs of words between separators
RECURSIVE NameRuns(_, _)
NameRuns(ws, cur) ==
    LET done == IF cur = <<>> THEN <<>> ELSE <<cur>>
    IN  IF ws = <<>> THEN done
        ELSE IF IsSeparatorWord(Head(ws))
        THEN done \o NameRuns(Tail(ws), <<>>)
        ELSE NameRuns(Tail(ws), IF cur = <<>> THEN Head(ws)
                                ELSE cur \o <<" ">> \o Head(ws))

\* the items of a sequence whose normalized key is not empty and is not the
\* key of an earlier item
FirstSeen(seq) ==
    SelectSeq([p \in 1..Len(seq) |->
                  IF /\ _norm(seq[p]) # <<>>
                     /\ \A q \in 1..(p - 1) : _norm(seq[q]) # _norm(seq[p])
                  THEN seq[p] ELSE <<>>],
              LAMBDA x : x # <<>>)

\* C15: _split_names gives the names that stand between commas, semicolons,
\* slashes, ampersands, plus signs and the words "e" and "and" ("Ana / Bruno
\* e Carla" gives Ana, Bruno, Carla); the merged responsibles of a group are
\* its names in first-seen order, and no two of them have the same
\* normalized key.
C15_SplitAndMerge ==
    pc = "merged" =>
        /\ \A i \in 1..Len(txt) :
              key[i] = FirstSeen(NameRuns(WordsOf(txt[i], <<>>), <<>>))
        /\ txt[1] = AnaBrunoCarla =>
              key[1] = << <<"A", "n", "a">>, <<"B", "r", "u", "n", "o">>,
                          <<"C", "a", "r", "l", "a">> >>
        /\ epList = FirstSeen(Flatten(key))
        /\ \A p, q \in 1..Len(epList) :
              p # q => _norm(epList[p]) # _norm(epList[q])

\* "Ana / Bruno e Carla" was merged with "ANA, Carla": the alias ANA and the
\* second Carla were dropped
C15_Witness ==
    /\ pc = "merged"
    /\ txt = <<AnaBrunoCarla,
               <<"A", "N", "A", ",", " ", "C", "a", "r", "l", "a">> >>
    /\ key[2] = << <<"A", "N", "A">>, <<"C", "a", "r", "l", "a">> >>
    /\ epList = << <<"A", "n", "a">>, <<"B", "r", "u", "n", "o">>,
                   <<"C", "a", "r", "l", "a">> >>
    /\ key2 = <<"A", "n", "a", ",", " ", "B", "r", "u", "n", "o", ",", " ",
                "C", "a", "r", "l", "a">>

(* Specification of the cached image index: the files of the image         *)
(* directory are added, removed, renamed, touched and resized between      *)
(* refreshes of the page, and every refresh takes the index from           *)
(* load_images_index, which st.cache_data caches by its argument sig.      *)
(* iterdir yields the files in an arbitrary order: the listing of the      *)
(* directory is a sequence, and a file that is added or renamed may come   *)
(* at any position of it.                                                  *)

MaxCacheFiles == 2

MaxCached == 2

\* the file names of the directory: two image files of one key, an image
\* file without the prefix and a file that is not an image
CacheFileNames ==
    { [stem |-> <<"S", "V", "B", "_", "A", "N", "A">>,
       suffix |-> <<".", "p", "n", "g">>],
      [stem |-> <<"s", "v", "b", "_", "a", "n", "a">>,
       suffix |-> <<".", "J", "P", "G">>],
      [stem |-> <<"A", "N", "A">>, suffix |-> <<".", "p", "n", "g">>],
      [stem |-> <<"S", "V", "B", "_", "A", "N", "A">>,
       suffix |-> <<".", "t", "x", "t">>] }

\* st_mtime_ns and st_size of a file: as created, touched, and rewritten
\* with another size
FileStats ==
    { [mtime |-> 0, size |-> 1], [mtime |-> 1, size |-> 1],
      [mtime |-> 1, size |-> 2] }

StatFile(n, st) ==
    [stem |-> n.stem, suffix |-> n.suffix, mtime |-> st.mtime,
     size |-> st.size]

NameOf(f) == [stem |-> f.stem, suffix |-> f.suffix]

\* the listing fs with the file f put at position k
InsertAt(fs, k, f) ==
    SubSeq(fs, 1, k - 1) \o <<f>> \o SubSeq(fs, k, Len(fs))

\* the listing fs without its file at position k
RemoveAt(fs, k) == SubSeq(fs, 1, k - 1) \o SubSeq(fs, k + 1, Len(fs))

\* the entries name:mtime:size of the image files; the sorted, joined and
\* hashed text is represented by the set of its entries
_dir_signature(dir) ==
    IF ~dir.is_dir THEN {}
    ELSE {<<dir.files[i].stem \o dir.files[i].suffix, dir.files[i].mtime,
            dir.files[i].size>> :
             i \in {j \in 1..Len(dir.files) :
                      Str(lower(dir.files[j].suffix)) \in ImageSuffixes}}

\* st.cache_data: the value stored for the argument, or else the value of
\* the call
load_images_index(entries, sig, dir) ==
    IF \E e \in entries : e.sig = sig
    THEN (CHOOSE e \in entries : e.sig = sig).idx
    ELSE index_images(dir)

InitCache ==
    /\ pc = "changed"
    /\ img_dir = [is_dir |-> TRUE, files |-> <<>>]
    /\ cache = {}
    /\ img_idx = <<>>
    /\ file_id = <<>>
    /\ char_name = <<>>
    /\ img_path = <<>>
    /\ exc = ""
    /\ TextIdle
    /\ LoadIdle
    /\ ListIdle
    /\ StatsIdle

\* app.py 651-652: a refresh of the page
Refresh ==
    /\ \/ \E e \in cache : e.sig = _dir_signature(img_dir)
       \/ Cardinality(cache) < MaxCached
    /\ img_idx' = load_images_index(cache, _dir_signature(img_dir), img_dir)
    /\ cache' = cache \cup {[sig |-> _dir_signature(img_dir), idx |-> img_idx']}
    /\ pc' = "fresh"
    /\ UNCHANGED <<img_dir, file_id, char_name, img_path, exc,
                   textVars, loadVars, listVars, statsVars>>

\* the directory gets the listing fs
ChangeDir(fs) ==
    /\ img_dir' = [img_dir EXCEPT !.files = fs]
    /\ pc' = "changed"
    /\ UNCHANGED <<img_idx, cache, file_id, char_name, img_path, exc,
                   textVars, loadVars, listVars, statsVars>>

AddFile ==
    /\ Len(img_dir.files) < MaxCacheFiles
    /\ \E n \in CacheFileNames, st \in FileStats,
          k \in 1..(Len(img_dir.files) + 1) :
          /\ \A i \in 1..Len(img_dir.files) : NameOf(img_dir.files[i]) # n
          /\ ChangeDir(InsertAt(img_dir.files, k, StatFile(n, st)))

RemoveFile ==
    \E k \in 1..Len(img_dir.files) : ChangeDir(RemoveAt(img_dir.files, k))

RenameFile ==
    \E k \in 1..Len(img_dir.files), n \in CacheFileNames,
       to \in 1..Len(img_dir.files) :
        /\ \A i \in 1..Len(img_dir.files) : NameOf(img_dir.files[i]) # n
        /\ ChangeDir(InsertAt(RemoveAt(img_dir.files, k), to,
                              StatFile(n, img_dir.files[k])))

\* the modification time of a file is set
TouchFile ==
    \E k \in 1..Len(img_dir.files), m \in {st.mtime : st \in FileStats} :
        /\ m # img_dir.files[k].mtime
        /\ [mtime |-> m, size |-> img_dir.files[k].size] \in FileStats
        /\ ChangeDir([img_dir.files EXCEPT ![k].mtime = m])

\* a file is rewritten with another size
ResizeFile ==
    \E k \in 1..Len(img_dir.files), st \in FileStats :
        /\ st.size # img_dir.files[k].size
        /\ ChangeDir([img_dir.files EXCEPT
                         ![k] = StatFile(img_dir.files[k], st)])

NextCache ==
    \/ Refresh
    \/ AddFile
    \/ RemoveFile
    \/ RenameFile
    \/ TouchFile
    \/ ResizeFile

SpecCache == InitCache /\ [][NextCache]_vars

(* Claims about the cached image index                                     *)

\* the entries of an index, as a dict
AsDict(idx) == {idx[i] : i \in 1..Len(idx)}

MaxIndexFiles == 3

\* the files above, a second file of the key of the first, and a file
\* whose stem is the prefix alone
IndexedFiles ==
    ImageFiles \cup
    { File(<<"s", "v", "b", "_", "r", "i", "g", "_", "m", "u", "r", "i", "e", "l">>,
           <<".", "g", "i", "f">>),
      File(<<"S", "V", "B", "_">>, <<".", "w", "e", "b", "p">>) }

\* the listings of n files
RECURSIVE IndexListings(_)
IndexListings(n) ==
    IF n = 0 THEN {<<>>}
    ELSE {Append(fs, f) : fs \in IndexListings(n - 1), f \in IndexedFiles}

IndexDirs ==
    {NoDir} \cup
    {[is_dir |-> TRUE, files |-> fs] :
        fs \in {l \in UNION {IndexListings(n) : n \in 0..MaxIndexFiles} :
                   \A i, j \in 1..Len(l) : l[i] = l[j] => i = j}}

InitIndex ==
    /\ pc = "dir"
    /\ img_dir \in IndexDirs
    /\ file_id = <<>>
    /\ char_name = <<>>
    /\ img_idx = <<>>
    /\ img_path = <<>>
    /\ cache = {}
    /\ exc = ""
    /\ TextIdle
    /\ LoadIdle
    /\ ListIdle
    /\ StatsIdle

NextIndex == IndexImages

SpecIndex == InitIndex /\ [][NextIndex]_vars

(* Claims about the image index                                            *)

\* the file has an image extension and a name that starts with the prefix
IsProjectImage(f) ==
    /\ Str(lower(f.suffix)) \in ImageSuffixes
    /\ lower(SubSeq(f.stem \o f.suffix, 1, 4)) = <<"s", "v", "b", "_">>

\* the position in the listing of the first project image of the key k
FirstOfImageKey(k) ==
    CHOOSE i \in 1..Len(img_dir.files) :
        /\ IsProjectImage(img_dir.files[i])
        /\ norm_key(img_dir.files[i].stem) = k
        /\ \A j \in 1..(i - 1) :
              IsProjectImage(img_dir.files[j])
                  => norm_key(img_dir.files[j].stem) # k

\* C17: the keys of the index are the safe keys of the stems of the image
\* files of the directory whose name starts with "SVB_" in any case, every
\* key maps to the path of the first such file scanned, and no other file
\* has an entry.
C17_OnlyProjectImages ==
    pc = "indexed" =>
        /\ Keys(img_idx) =
              {norm_key(img_dir.files[i].stem) :
                  i \in {j \in 1..Len(img_dir.files) :
                           IsProjectImage(img_dir.files[j])}}
        /\ \A i, j \in 1..Len(img_idx) :
              img_idx[i][1] = img_idx[j][1] => i = j
        /\ \A i \in 1..Len(img_idx) :
              img_idx[i][2] =
                  PathStr(img_dir.files[FirstOfImageKey(img_idx[i][1])])

\* of the two files of the key "svbrigmuriel" the one scanned first was
\* indexed, and the file without the prefix was not
C17_Witness ==
    /\ pc = "indexed"
    /\ img_dir.is_dir
    /\ Len(img_dir.files) = 3
    /\ img_dir.files[1].stem =
          <<"s", "v", "b", "_", "r", "i", "g", "_", "m", "u", "r", "i", "e", "l">>
    /\ img_dir.files[2].stem = <<"m", "u", "r", "i", "e", "l">>
    /\ img_dir.files[3].stem = MURIEL_ID
    /\ Len(img_idx) = 1
    /\ img_idx[1][2] = PathStr(img_dir.files[1])

(* Specification of one run of the page from the test of the source file  *)
(* to the statistics.                                                      *)

\* the content of a path where no file exists
NoCsv == <<<<<<"<absent>">>>>>>

\* st.error(f'CSV não encontrado: {CSV_PATH}')
CsvNotFound == "CSV nao encontrado: SVB_INDEX.xlsx - RIG.csv"

\* the files of one record, and the missing file
RunCsvFiles == {f \in CsvFiles : Len(f) <= 3} \cup {NoCsv}

\* the image directory: missing, or holding one file
RunDirs ==
    {NoDir} \cup
    {[is_dir |-> TRUE, files |-> <<StatFile(n, [mtime |-> 0, size |-> 1])>>] :
        n \in CacheFileNames}

InitRun ==
    /\ pc = "run"
    /\ csv \in RunCsvFiles
    /\ df = NoTable
    /\ all_eps = <<>>
    /\ base_exp = NoTable
    /\ img_dir \in RunDirs
    /\ img_idx = <<>>
    /\ file_id = <<>>
    /\ char_name = <<>>
    /\ img_path = <<>>
    /\ cache = {}
    /\ exc = ""
    /\ TextIdle
    /\ ListIdle
    /\ StatsIdle

\* the file is served as it is: a missing file is not reported
CheckCsv_unchecked ==
    /\ pc = "run"
    /\ pc' = "start"
    /\ UNCHANGED <<exc, textVars, loadVars, listVars, imgVars, statsVars>>

\* app.py 639-642: a missing file is reported and the run stops
CheckCsv ==
    /\ pc = "run"
    /\ IF csv = NoCsv
       THEN /\ pc' = "stopped"
            /\ exc' = CsvNotFound
       ELSE /\ pc' = "start"
            /\ UNCHANGED exc
    /\ UNCHANGED <<textVars, loadVars, listVars, imgVars, statsVars>>

\* app.py 651-652, in the first run of the session
LoadImagesIndex ==
    /\ pc = "loaded"
    /\ cache = {}
    /\ img_idx' = load_images_index(cache, _dir_signature(img_dir), img_dir)
    /\ cache' = {[sig |-> _dir_signature(img_dir), idx |-> img_idx']}
    /\ UNCHANGED <<pc, exc, img_dir, file_id, char_name, img_path, textVars,
                   loadVars, listVars, statsVars>>

\* app.py 658, after the images were indexed
RunDetectEpisodes == cache # {} /\ DetectEpisodes

NextRun ==
    \/ CheckCsv
    \/ LoadDataframe
    \/ LoadImagesIndex
    \/ RunDetectEpisodes
    \/ BuildBaseExp
    \/ OverallStats

SpecRun == InitRun /\ [][NextRun]_vars

(* Claims about a run without its source table                             *)

\* no step after the load has left a result
NothingLater ==
    /\ cache = {}
    /\ img_idx = <<>>
    /\ all_eps = <<>>
    /\ base_exp = NoTable
    /\ ov = NoStats

C18_RaisedWitness ==
    /\ csv # NoCsv
    /\ pc = "stopped"
    /\ exc = "AttributeError"

(* Claims about the rows of a record in the exploded table                 *)

\* the rows of the exploded table that come from the record r of the table
RowsOfRecord(r) ==
    SelectSeq(base_exp.data, LAMBDA row : row.idx = df.data[r].idx)

\* the episode numbers of the record r: of its parsed list, or of the list
\* of all episodes when the record is of every episode
EpisodeNumbers(r) ==
    LET parsed == parse_episode_field(Cell(df, r, COL_EP))
    IN  IF parsed = <<PyStr(Todos)>>
        THEN all_eps
        ELSE [i \in 1..Len(parsed) |-> parsed[i][2]]

\* C19: in the exploded table a record has one row per element of its
\* episode list, in the order of the list and with repeated numbers
\* repeated, and a record of an empty list has no row.
C19_RowPerElement ==
    pc = "exploded" =>
        \A r \in 1..Len(df.data) :
            /\ Len(RowsOfRecord(r)) = Len(EpisodeNumbers(r))
            /\ \A i \in 1..Len(RowsOfRecord(r)) :
                  RowsOfRecord(r)[i].EP_LIST = EpisodeNumbers(r)[i]

\* the record of the text "3 e 3" has two rows of episode 3 and the record
\* without an episode text has none
C19_Witness ==
    /\ pc = "exploded"
    /\ Len(df.data) = 2
    /\ str(Cell(df, 1, COL_EP)) = <<"3", " ", "e", " ", "3">>
    /\ parse_episode_field(Cell(df, 2, COL_EP)) = <<>>
    /\ Len(base_exp.data) = 2
    /\ \A k \in 1..2 : /\ base_exp.data[k].idx = df.data[1].idx
                       /\ base_exp.data[k].EP_LIST = 3

(* Claims about the order of the identifiers tried for a file id           *)

\* the text s has the prefix p in any case; Rest is what follows it
HasPrefix(s, p) == Len(s) >= Len(p) /\ lower(SubSeq(s, 1, Len(p))) = lower(p)

Rest(s, p) == SubSeq(s, Len(p) + 1, Len(s))

\* the forms of the identifier id in the order of the cascade
FormsInOrder(id) ==
    IF HasPrefix(id, SVB_RIG_)
    THEN <<id, SVB_PER_ \o Rest(id, SVB_RIG_), SVB_ \o Rest(id, SVB_RIG_)>>
    ELSE IF HasPrefix(id, SVB_PER_)
    THEN <<id, SVB_RIG_ \o Rest(id, SVB_PER_), SVB_ \o Rest(id, SVB_PER_)>>
    ELSE <<id, SVB_RIG_ \o Rest(id, SVB_), SVB_PER_ \o Rest(id, SVB_)>>

\* the positions of the forms of id whose safe key is a key of the index
FormsPresent(id) ==
    {n \in 1..3 : norm_key(FormsInOrder(id)[n]) \in Keys(img_idx)}

\* the file id of the lookup, without surrounding blanks
LookupId == strip(Or(file_id, <<>>))

\* C20: for a file id with the prefix "SVB_" the image found is the entry
\* of the first form of the id that is in the index, in the order: the id
\* itself; for SVB_RIG_x then SVB_PER_x and SVB_x; for SVB_PER_x then
\* SVB_RIG_x and SVB_x; for SVB_x then SVB_RIG_x and SVB_PER_x; and the
\* result is that of the matching by name only when no form is in the index.
C20_FirstFormPresent ==
    (pc = "resolved" /\ HasPrefix(LookupId, SVB_)) =>
        IF FormsPresent(LookupId) # {}
        THEN \E n \in FormsPresent(LookupId) :
                /\ \A m \in FormsPresent(LookupId) : n <= m
                /\ img_path = DictGet(img_idx, norm_key(FormsInOrder(LookupId)[n]))
        ELSE img_path = (IF strip(Or(char_name, <<>>)) # <<>>
                         THEN NameMatch(img_idx, strip(Or(char_name, <<>>)))
                         ELSE <<>>)

\* the id SVB_RIG_MURIEL is not in the index, its forms SVB_PER_MURIEL and
\* SVB_MURIEL are, and the image of SVB_PER_MURIEL was found
C20_Witness ==
    /\ pc = "resolved"
    /\ file_id = MURIEL_ID
    /\ FormsPresent(LookupId) = {2, 3}
    /\ img_path = DictGet(img_idx, <<"s", "v", "b", "p", "e", "r", "m", "u", "r", "i", "e", "l">>)
    /\ img_path # DictGet(img_idx, <<"s", "v", "b", "m", "u", "r", "i", "e", "l">>)

\* no form of the id SVB_RIG_XX is in the index and the image was found by
\* the name
C20_ByNameWitness ==
    /\ pc = "resolved"
    /\ HasPrefix(LookupId, SVB_)
    /\ FormsPresent(LookupId) = {}
    /\ img_path # <<>>

(* Specification of the matching of an image by the name of a character:  *)
(* the directory is indexed, then the image is looked up without a file id *)
(* and the place of the return in find_image_for is kept.                  *)

MaxMatchFiles == 2

MatchFiles ==
    { File(<<"S", "V", "B", "_", "R", "I", "G", "_", "M", "U", "R", "I", "E", "L", "A">>,
           <<".", "p", "n", "g">>),
      File(<<"S", "V", "B", "_", "R", "I", "G", "_", "M", "U", "R", "I", "E", "L">>,
           <<".", "p", "n", "g">>),
      File(<<"S", "V", "B", "_", "M", "U", "R", "I", "E", "L">>,
           <<".", "p", "n", "g">>),
      File(<<"S", "V", "B", "_", "A", "N", "A", "B", "I", "A">>,
           <<".", "p", "n", "g">>),
      File(<<"S", "V", "B", "_", "A", "N", "A", "E", "B", "I", "A">>,
           <<".", "p", "n", "g">>),
      File(<<"S", "V", "B", "_", "A", "N", "A">>,
           <<".", "p", "n", "g">>),
      File(<<"S", "V", "B", "_", "R", "I", "G", "_", "R", "E", "B", "I", "M", "B", "O", "C", "A">>,
           <<".", "p", "n", "g">>) }

RECURSIVE MatchListings(_)
MatchListings(n) ==
    IF n = 0 THEN {<<>>}
    ELSE {Append(fs, f) : fs \in MatchListings(n - 1), f \in MatchFiles}

MatchDirs ==
    {[is_dir |-> TRUE, files |-> fs] :
        fs \in {l \in UNION {MatchListings(n) : n \in 0..MaxMatchFiles} :
                   \A i, j \in 1..Len(l) : l[i] = l[j] => i = j}}

MatchNames ==
    { None,
      <<>>,
      <<"M", "u", "r", "i", "e", "l">>,
      <<"A", "n", "a", " ", "e", " ", "B", "i", "a">>,
      <<"A", "n", "a">>,
      <<"T", "i", "a", " ", "R", "e", "b", "i", "m", "b", "o", "c", "a">>,
      <<"S", "e", "u", " ", "T", "o", "n", "h", "o">>,
      <<"S", "V", "B", " ", "M", "u", "r", "i", "e", "l">>,
      <<"P", "e", "p", "e", " ", "P", "e", "s", "c", "a", "d", "o", "r">>,
      <<" ", "-", " ">> }

InitMatch ==
    /\ pc = "dir"
    /\ img_dir \in MatchDirs
    /\ file_id \in {None, <<>>}
    /\ char_name \in MatchNames
    /\ img_idx = <<>>
    /\ img_path = <<>>
    /\ cache = {}
    /\ exc = ""
    /\ TextIdle
    /\ LoadIdle
    /\ ListIdle
    /\ StatsIdle

\* lines 268-276: the entry of the exact match of a variant
ExactMatch(idx, nm) ==
    FirstHit(idx, NameVariants(nm), LAMBDA v, k : v = FileNameParts(k))

\* lines 279-286: the entry of the match by containment
PartialMatch(idx, nm) ==
    FirstHit(idx, NameVariants(nm), LAMBDA v, k :
                \/ (Contains(FileNameParts(k), v) /\ Len(v) >= 4)
                \/ (Contains(v, FileNameParts(k)) /\ Len(FileNameParts(k)) >= 4))

\* lines 289-293: the entry of the match of a word of the name
PartMatch(idx, nm) ==
    FirstHit(idx, SelectSeq(Words(nm), LAMBDA w : Len(w) >= 4),
             LAMBDA w, k : Contains(k, w))

\* the return statement of find_image_for that gives the result for the
\* stripped name nm when no file id matched
ReturnSite(idx, nm) ==
    IF nm = <<>> THEN "line295"
    ELSE IF ExactMatch(idx, nm) # <<>> THEN "line276"
    ELSE IF PartialMatch(idx, nm) # <<>> THEN "line286"
    ELSE IF PartMatch(idx, nm) # <<>> THEN "line293"
    ELSE "line295"

ReturnSites == {"line276", "line286", "line293", "line295"}

\* path = find_image_for(img_index, fid, name) for a row without file id;
\* epList keeps the local name_variants
MatchByName ==
    /\ pc = "indexed"
    /\ img_path' = find_image_for(img_idx, file_id, char_name).value
    /\ epList' = IF strip(Or(char_name, <<>>)) = <<>> THEN <<>>
                 ELSE NameVariants(strip(Or(char_name, <<>>)))
    /\ pc' = ReturnSite(img_idx, strip(Or(char_name, <<>>)))
    /\ UNCHANGED <<img_dir, img_idx, file_id, char_name, cache, exc, txt, key,
                   key2, status_kind, loadVars, listVars, statsVars>>

NextMatch == IndexImages \/ MatchByName

SpecMatch == InitMatch /\ [][NextMatch]_vars

(* Claims about the matching by name                                       *)

\* the safe key of the stem of the file f without its prefix SVB_RIG_,
\* SVB_PER_ or SVB_
StrippedName(f) ==
    norm_key(IF HasPrefix(f.stem, SVB_RIG_) THEN Rest(f.stem, SVB_RIG_)
             ELSE IF HasPrefix(f.stem, SVB_PER_) THEN Rest(f.stem, SVB_PER_)
             ELSE IF HasPrefix(f.stem, SVB_) THEN Rest(f.stem, SVB_)
             ELSE f.stem)

\* the files of the directory that are in the index
IndexedFilesOf(dir, idx) ==
    {f \in {dir.files[i] : i \in 1..Len(dir.files)} :
        \E i \in 1..Len(idx) : idx[i][2] = PathStr(f)}

\* C21 as stated: when the name of a file of the index, without its
\* prefix, equals a variant of the name, the image is returned by the step
\* of the exact match and is that of such a file.
C21_AsStated ==
    (/\ pc \in ReturnSites
     /\ \E f \in IndexedFilesOf(img_dir, img_idx) :
           \E n \in 1..Len(epList) : epList[n] = StrippedName(f))
    => /\ pc = "line276"
       /\ \E f \in IndexedFilesOf(img_dir, img_idx) :
             /\ img_path = PathStr(f)
             /\ \E n \in 1..Len(epList) : epList[n] = StrippedName(f)

\* the words of the name: the pieces of the normalised text between blanks
\* and underscores
NameWords(nm) ==
    SelectSeq(SplitWords(_normalize_text(nm), 1, 1), LAMBDA w : w # <<>>)

RECURSIVE JoinUnderscore(_)
JoinUnderscore(ws) ==
    IF ws = <<>> THEN <<>>
    ELSE IF Len(ws) = 1 THEN ws[1]
    ELSE ws[1] \o <<"_">> \o JoinUnderscore(Tail(ws))

SignificantWords(nm) == SelectSeq(NameWords(nm), LAMBDA w : Len(w) >= 3)

\* the variants the name is said to have, but for the one of its first two
\* significant words
StatedVariants(nm) ==
    {norm_key(nm)}
    \cup {norm_key(JoinUnderscore(
              SelectSeq(NameWords(nm), LAMBDA w : w \notin StopWords)))}
    \cup {special_cases(JoinUnderscore(NameWords(nm)))[i] :
              i \in 1..Len(special_cases(JoinUnderscore(NameWords(nm))))}
    \cup (IF SignificantWords(nm) # <<>>
          THEN {SignificantWords(nm)[1]} ELSE {})

\* C22 as stated: the variants built for a name contain the full normalised
\* name, the name without stop-words, the aliases of the table of special
\* cases when the name is an entry of it, the first two significant words
\* joined and the first significant word.
C22_AsStated ==
    (pc \in ReturnSites /\ strip(Or(char_name, <<>>)) # <<>>)
    => /\ StatedVariants(strip(char_name)) \subseteq
             {epList[n] : n \in 1..Len(epList)}
       /\ Len(SignificantWords(strip(char_name))) >= 2 =>
             \E n \in 1..Len(epList) :
                epList[n] \in
                   {SignificantWords(strip(char_name))[1] \o <<"_">>
                       \o SignificantWords(strip(char_name))[2],
                    SignificantWords(strip(char_name))[1]
                       \o SignificantWords(strip(char_name))[2]}

(* Specification of the card of one group of the list tab: the task rows   *)
(* of the records of one character are aggregated into a card.             *)

MaxGroupRecords == 2

\* the statuses of a stage: in progress, in review, not started, done, blank
GroupStatuses ==
    { <<"E", "m", " ", "A", "n", "d", "a", "m", "e", "n", "t", "o">>,
      <<"P", "e", "n", "d", "e", "n", "t", "e", " ", "d", "e", " ", "r", "e", "v", "i", "s", "a+tilde", "o">>,
      <<"N", "a+tilde", "o", " ", "i", "n", "i", "c", "i", "a", "d", "o">>,
      <<"C", "o", "n", "c", "l", "u", "i+acute", "d", "o">>,
      <<>>,
      <<" ">> }

GroupRecord(st_c, st_r, link_c, sync, comments) ==
    [st_c |-> st_c, st_r |-> st_r, link_c |-> link_c, sync |-> sync,
     comments |-> comments]

\* records that differ in their statuses
StatusRecords ==
    {GroupRecord(c, r, <<>>, <<>>, <<>>) :
        c \in GroupStatuses,
        r \in {x \in GroupStatuses : x # <<" ">> /\ _status_kind(x) # "review"}}

\* records of one open stage that differ in the texts an identifier can be
\* read from
IdRecords ==
    {GroupRecord(<<"E", "m", " ", "A", "n", "d", "a", "m", "e", "n", "t", "o">>, <<>>, l, y, c) :
        l \in {<<>>, <<"d", "/", "P", "E", "R", "_", "b", "i", "a", ".", "z", "i", "p">>},
        y \in {<<>>, <<"s", "/", "R", "I", "G", "_", "O", "T", "O", " ", "2">>},
        c \in {<<>>, <<"v", "e", "r", " ", "S", "V", "B", "_", "C", "A", "I", "O">>}}

\* the file id and the name of the group
GroupIdentities ==
    { <<<<"X", "1", "2">>, <<"A", "n", "a">>>>,
      <<<<"r", "i", "g", "_", "a", "n", "a">>, <<"A", "n", "a">>>>,
      <<<<>>, <<"T", "i", "a", " ", "B", "i", "a">>>>,
      <<<<>>, <<>>>> }

\* lines 316-370: the task rows of a record of the group, one for each of
\* its open stages
GroupTaskRows(k, rec) ==
    LET row(etapa, st, link) ==
            [etapa |-> etapa, id |-> k[1], nome |-> k[2], status |-> st,
             kind |-> _status_kind(st),
             status_c |-> rec.st_c, status_r |-> rec.st_r,
             resp_c |-> <<>>, resp_r |-> <<>>,
             link |-> link, sync |-> rec.sync, comentarios |-> rec.comments]
        open == {"wip", "review", "todo"}
    IN  (IF _status_kind(rec.st_c) \in open
         THEN <<row("Concept", rec.st_c, rec.link_c)>> ELSE <<>>)
        \o (IF _status_kind(rec.st_r) \in open
            THEN <<row("Rig", rec.st_r, <<>>)>> ELSE <<>>)

RECURSIVE GroupRecordLists(_, _)
GroupRecordLists(recs, n) ==
    IF n = 0 THEN {<<>>}
    ELSE {Append(rs, r) : rs \in GroupRecordLists(recs, n - 1), r \in recs}

\* the task rows of the records rs of the identity k
RowsOfGroup(k, rs) == Flatten([i \in 1..Len(rs) |-> GroupTaskRows(k, rs[i])])

\* the groups that have a row: the records of up to MaxGroupRecords
\* statuses of one identity, and the records of up to two sets of texts of
\* every identity
Groups ==
    {g \in {RowsOfGroup(<<<<"X", "1", "2">>, <<"A", "n", "a">>>>, rs) :
               rs \in UNION {GroupRecordLists(StatusRecords, n) :
                                n \in 1..MaxGroupRecords}}
            \cup
            {RowsOfGroup(k, rs) :
               k \in GroupIdentities,
               rs \in UNION {GroupRecordLists(IdRecords, n) : n \in 1..2}} :
        g # <<>>}

InitGroup ==
    /\ pc = "group"
    /\ tasks \in Groups
    /\ sel = NoFilters
    /\ agg = <<>>
    /\ exc = ""
    /\ TextIdle
    /\ LoadIdle
    /\ ImgIdle
    /\ StatsIdle

\* lines 497-574: the body of the loop over the groups, for one group
BuildCard ==
    /\ pc = "group"
    /\ agg' \in {<<Card(tasks[1].id, tasks[1].nome, gs)>> :
                    gs \in RankOrders(tasks, 1..Len(tasks))}
    /\ pc' = "card"
    /\ UNCHANGED <<tasks, sel, exc, textVars, loadVars, imgVars, statsVars>>

NextGroup == BuildCard

SpecGroup == InitGroup /\ [][NextGroup]_vars

(* Claims about the card of a group                                        *)

\* the text has a match of the pattern of identifiers
MatchesIdPattern(s) == _SVB_ID_RE(s) # None

\* the texts of the column f of the rows of the group that are not blank
GroupTexts(f) ==
    SelectSeq([i \in 1..Len(tasks) |-> tasks[i][f]],
              LAMBDA x : strip(x) # <<>>)

\* the candidates in the stated order: the original id, the link, sync and
\* comment texts, the ids made from the cleaned name
StatedCandidates ==
    <<tasks[1].id>>
    \o GroupTexts("link") \o GroupTexts("sync") \o GroupTexts("comentarios")
    \o (IF NomeClean(tasks[1].nome) # <<>>
        THEN << SVB_RIG_ \o NomeClean(tasks[1].nome),
                SVB_PER_ \o NomeClean(tasks[1].nome),
                SVB_ \o NomeClean(tasks[1].nome) >>
        ELSE <<>>)

\* C23 as stated: the id of the card is the standard form of the first
\* candidate that matches the pattern of identifiers, and the original id
\* only when no candidate matches.
C23_AsStated ==
    pc = "card" =>
        LET hits == {n \in 1..Len(StatedCandidates) :
                        MatchesIdPattern(StatedCandidates[n])}
        IN  IF hits = {} THEN agg[1].id = tasks[1].id
            ELSE \E n \in hits :
                    /\ \A m \in hits : n <= m
                    /\ agg[1].id = _std_svb_id(StatedCandidates[n])

\* the priority of a task row: in progress, in review, not started
StagePriority(row) ==
    CASE row.kind = "wip" -> 3
      [] row.kind = "review" -> 2
      [] row.kind = "todo" -> 1
      [] OTHER -> 0

IsBlank(s) == strip(s) = <<>>

\* the status of the card under f is the first status under f that is not
\* blank in an order of the rows by decreasing priority
FirstByPriority(f) ==
    IF \A i \in 1..Len(tasks) : IsBlank(tasks[i][f])
    THEN agg[1][f] = <<>>
    ELSE \E i \in 1..Len(tasks) :
            /\ ~IsBlank(tasks[i][f])
            /\ agg[1][f] = tasks[i][f]
            /\ \A j \in 1..Len(tasks) :
                  StagePriority(tasks[j]) > StagePriority(tasks[i])
                      => IsBlank(tasks[j][f])

\* C24: the Concept status and the Rig status of the card of a group are
\* each the first status of that stage that is not blank when the rows of
\* the group are taken by decreasing priority of the row (in progress, in
\* review, not started), and are empty only when every row has a blank
\* status of that stage.
C24_RepresentativeStatus ==
    pc = "card" => FirstByPriority("status_c") /\ FirstByPriority("status_r")

\* the row not started comes before the row in progress in the group and
\* the card has the Concept status of the row in progress
C24_Witness ==
    /\ pc = "card"
    /\ Len(tasks) = 2
    /\ tasks[1].kind = "todo"
    /\ tasks[2].kind = "wip"
    /\ ~IsBlank(tasks[1].status_c)
    /\ tasks[1].status_c # tasks[2].status_c
    /\ agg[1].status_c = tasks[2].status_c
    /\ agg[1].status_r = <<>>

(* Specification of a run of the script up to the open tasks of the list  *)
(* tab, for records that differ in the statuses of their stages.           *)

MaxTaskRows == 2

\* an unknown status
Pausado == <<"P", "a", "u", "s", "a", "d", "o">>

TaskStatuses == (GroupStatuses \ {<<" ">>}) \cup {Pausado}

TaskRecord(c, r) ==
    ListRecord(<<"S", "V", "B", "_", "A", "N", "A">>, <<"A", "n", "a">>, <<"2">>, c, r, <<>>, <<>>)

\* records of every status of one stage, the other stage done, and a record
\* of two open stages
TaskRecords ==
    {TaskRecord(c, <<"C", "o", "n", "c", "l", "u", "i+acute", "d", "o">>) : c \in TaskStatuses}
    \cup {TaskRecord(<<"C", "o", "n", "c", "l", "u", "i+acute", "d", "o">>, r) : r \in TaskStatuses}
    \cup {TaskRecord(<<"N", "a+tilde", "o", " ", "i", "n", "i", "c", "i", "a", "d", "o">>, <<"E", "m", " ", "A", "n", "d", "a", "m", "e", "n", "t", "o">>)}

TaskCsvFiles ==
    {CsvFile(CanonicalLayout, FALSE, recs) :
        recs \in UNION {Records(TaskRecords, n) : n \in 1..MaxTaskRows}}

InitTasks ==
    /\ pc = "start"
    /\ csv \in TaskCsvFiles
    /\ df = NoTable
    /\ all_eps = <<>>
    /\ base_exp = NoTable
    /\ exc = ""
    /\ TextIdle
    /\ ListIdle
    /\ ImgIdle
    /\ StatsIdle

NextTasks ==
    \/ LoadDataframe
    \/ DetectEpisodes
    \/ BuildBaseExp
    \/ BuildOpenTasks

SpecTasks == InitTasks /\ [][NextTasks]_vars

(* Claims about the open tasks                                             *)

\* the status of the stage of the record r of the loaded table
StageStatus(r, etapa) ==
    str(Cell(df, r, IF etapa = "Concept" THEN COL_STATUS_CONCEPT
                    ELSE COL_STATUS_RIG))

\* the number of task rows of the stage with the status st
RowsWith(etapa, st) ==
    Cardinality({i \in 1..Len(tasks) :
                    tasks[i].etapa = etapa /\ tasks[i].status = st})

\* the number of records whose stage has the status st
RecordsWith(etapa, st) ==
    Cardinality({r \in 1..Len(df.data) : StageStatus(r, etapa) = st})

TasksBuilt == pc \in {"tasks", "none"}

\* C25 as stated: the task table has exactly one row for each record and
\* stage whose status is not classified done, a stage of an unknown or
\* blank status included.
C25_AsStated ==
    TasksBuilt =>
        \A etapa \in {"Concept", "Rig"}, st \in TaskStatuses :
            RowsWith(etapa, st) =
                IF _status_kind(st) # "done" THEN RecordsWith(etapa, st) ELSE 0

\* C25: the task table returned by build_open_tasks has exactly one row for
\* each record and stage whose status is classified in progress, in review
\* or not started; a stage that is done and a stage of an unknown or blank
\* status have no row.
C25_OpenStagesOnly ==
    TasksBuilt =>
        /\ \A etapa \in {"Concept", "Rig"}, st \in TaskStatuses :
              RowsWith(etapa, st) =
                  IF _status_kind(st) \in {"wip", "review", "todo"}
                  THEN RecordsWith(etapa, st) ELSE 0
        /\ \A i \in 1..Len(tasks) :
              /\ tasks[i].etapa \in {"Concept", "Rig"}
              /\ tasks[i].status \in TaskStatuses
              /\ tasks[i].kind = _status_kind(tasks[i].status)

\* a record of an unknown Concept status and a Rig done has no row, and a
\* record of a Concept not started and a Rig in progress has two
C25_Witness ==
    /\ pc = "tasks"
    /\ Len(df.data) = 2
    /\ StageStatus(1, "Concept") = Pausado
    /\ _status_kind(StageStatus(1, "Rig")) = "done"
    /\ _status_kind(StageStatus(2, "Concept")) = "todo"
    /\ _status_kind(StageStatus(2, "Rig")) = "wip"
    /\ Len(tasks) = 2
    /\ \E i \in 1..2 : tasks[i].etapa = "Rig" /\ tasks[i].kind = "wip"
    /\ \E i \in 1..2 : tasks[i].etapa = "Concept" /\ tasks[i].kind = "todo"

(* Claims about the order and the fragments of the matching by name        *)

\* the name of the lookup, and its words of four characters or more
LookupName == strip(Or(char_name, <<>>))

LongWords == SelectSeq(Words(LookupName), LAMBDA w : Len(w) >= 4)

\* the texts tried in the step of the return: the variants, or the words
StepTexts == IF pc = "line293" THEN LongWords ELSE epList

\* the text v and the key k of an entry are matched by the step of the return
StepHit(v, k) ==
    CASE pc = "line276" -> v = FileNameParts(k)
      [] pc = "line286" ->
            \/ (Contains(FileNameParts(k), v) /\ Len(v) >= 4)
            \/ (Contains(v, FileNameParts(k)) /\ Len(FileNameParts(k)) >= 4)
      [] pc = "line293" -> Contains(k, v)
      [] OTHER -> FALSE

NameSteps == {"line276", "line286", "line293"}

\* C26 as stated: of the entries that qualify in the step that returns, the
\* first in the order of the index is returned, whichever variant it
\* matches.
C26_AsStated ==
    pc \in NameSteps =>
        \E i \in 1..Len(img_idx) :
            /\ img_path = img_idx[i][2]
            /\ \E n \in 1..Len(StepTexts) : StepHit(StepTexts[n], img_idx[i][1])
            /\ \A j \in 1..(i - 1) : \A n \in 1..Len(StepTexts) :
                  ~StepHit(StepTexts[n], img_idx[j][1])

\* C26: in the step that returns, the variants are tried in their order;
\* the entry returned is, for the first variant that any entry matches, the
\* first entry in the order of the index that matches that variant.
C26_VariantThenEntry ==
    pc \in NameSteps =>
        \E n \in 1..Len(StepTexts) : \E i \in 1..Len(img_idx) :
            /\ img_path = img_idx[i][2]
            /\ StepHit(StepTexts[n], img_idx[i][1])
            /\ \A j \in 1..(i - 1) : ~StepHit(StepTexts[n], img_idx[j][1])
            /\ \A m \in 1..(n - 1) : \A j \in 1..Len(img_idx) :
                  ~StepHit(StepTexts[m], img_idx[j][1])

\* the first entry matches the second variant of "Ana e Bia" only, the
\* second entry matches the first variant, and the second entry is returned
C26_Witness ==
    /\ pc = "line286"
    /\ Len(img_idx) = 2
    /\ Len(epList) >= 2
    /\ ~StepHit(epList[1], img_idx[1][1])
    /\ StepHit(epList[2], img_idx[1][1])
    /\ StepHit(epList[1], img_idx[2][1])
    /\ img_path = img_idx[2][2]

\* one of the texts contains the other and the contained one has four
\* characters or more
ContainedFragment(v, name) ==
    \/ (Contains(name, v) /\ Len(v) >= 4)
    \/ (Contains(v, name) /\ Len(name) >= 4)

\* C27: an image found by the name is that of an entry whose name equals a
\* variant, or contains or is contained in a variant with a contained text
\* of four characters or more; the substring step returns only such an
\* entry, and no image is found when every variant is shorter than four
\* characters, or empty, and equals no entry.
C27_NoShortFragment ==
    pc \in ReturnSites =>
        /\ img_path # <<>> =>
              \E i \in 1..Len(img_idx) : \E n \in 1..Len(epList) :
                  /\ img_path = img_idx[i][2]
                  /\ \/ epList[n] = FileNameParts(img_idx[i][1])
                     \/ ContainedFragment(epList[n],
                                          FileNameParts(img_idx[i][1]))
        /\ pc = "line286" =>
              \E i \in 1..Len(img_idx) : \E n \in 1..Len(epList) :
                  /\ img_path = img_idx[i][2]
                  /\ ContainedFragment(epList[n], FileNameParts(img_idx[i][1]))
        /\ (\A n \in 1..Len(epList) :
               /\ Len(epList[n]) < 4
               /\ \A i \in 1..Len(img_idx) :
                     epList[n] # FileNameParts(img_idx[i][1]))
              => img_path = <<>>

\* the key of the only entry contains the variant "ana" of three characters
\* and no image is found
C27_Witness ==
    /\ pc = "line295"
    /\ Len(img_idx) = 1
    /\ epList # <<>>
    /\ Len(epList[1]) = 3
    /\ Contains(img_idx[1][1], epList[1])
    /\ img_path = <<>>

\* an image found by the substring step
C27_SubstringWitness ==
    /\ pc = "line286"
    /\ img_path # <<>>

(* Specification of the load of files whose first two lines may each be a *)
(* header line, a banner line or a line of data.                           *)

\* the cells of the first, second and third column of such a line
BannerFirstCells ==
    {HDR_EPS, <<"E", "p", "i", "s", "o+acute", "d", "i", "o", "s">>, HDR_BANNER, <<>>, <<"3">>}

BannerSecondCells == {HDR_ID, <<>>}

BannerThirdCells == {HDR_NOME, HDR_BANNER, <<>>}

BannerLines ==
    {<<a, b, c>> : a \in BannerFirstCells, b \in BannerSecondCells,
                   c \in BannerThirdCells}

\* two such lines and a line of data
BannerCsvFiles ==
    {<<l0, l1, <<<<"2">>, <<"S", "V", "B", "_", "A", "N", "A">>, <<"A", "n", "a">>>>>> :
        l0 \in BannerLines, l1 \in BannerLines}

InitBanner ==
    /\ pc = "start"
    /\ csv \in BannerCsvFiles
    /\ df = NoTable
    /\ all_eps = <<>>
    /\ base_exp = NoTable
    /\ exc = ""
    /\ TextIdle
    /\ ListIdle
    /\ ImgIdle
    /\ StatsIdle

NextBanner == LoadDataframe

SpecBanner == InitBanner /\ [][NextBanner]_vars

(* Claims about the header line of the loaded table                        *)

\* the line has a cell that the test of the retry takes for an episode
\* header
HasEpisodeCell(line) ==
    \E j \in 1..Len(line) : Str(norm_key(line[j])) \in {"eps", "episodio"}

\* the line has a cell with the text of the banner
HasBannerCell(line) ==
    \E j \in 1..Len(line) :
        Contains(norm_key(line[j]),
                 <<"s", "e", "n", "s", "a", "c", "i", "o", "n", "a", "l">>)

\* the loaded table has the lines after row 0, or after row 1, as its data
UsesRow0 == Len(df.data) = Len(csv) - 1

UsesRow1 == Len(df.data) = Len(csv) - 2

\* C28 as stated: the table uses row 1 as its header when row 0 has no
\* episode header and row 1 has one, and otherwise the table read with row 0
\* as header is kept.
C28_AsStated ==
    pc = "loaded" =>
        IF ~HasEpisodeCell(csv[1]) /\ HasEpisodeCell(csv[2])
        THEN UsesRow1 ELSE UsesRow0

\* C28: the table uses row 1 as its header when row 1 has an episode header
\* (EPS or Episódio) and row 0 has none or has a cell with the banner text
\* "sensacional"; otherwise the table read with row 0 as header is kept; no
\* later row is ever the header.
C28_HeaderRow ==
    pc = "loaded" =>
        IF (~HasEpisodeCell(csv[1]) \/ HasBannerCell(csv[1]))
           /\ HasEpisodeCell(csv[2])
        THEN UsesRow1 ELSE UsesRow0

\* the file has a banner line before its header and the table has the one
\* line of data after the header
C28_Witness ==
    /\ pc = "loaded"
    /\ csv[1] = <<HDR_BANNER, <<>>, <<>>>>
    /\ csv[2] = <<HDR_EPS, HDR_ID, HDR_NOME>>
    /\ Len(df.data) = 1
    /\ HasColumn(df, COL_EP)
    /\ Cell(df, 1, COL_FILE_ID) = <<"S", "V", "B", "_", "A", "N", "A">>

(* stats.py: episode_completion                                            *)

\* the rows of one episode, a group of groupby('__EP_LIST__')
EpisodeGroup(t, ep) ==
    [columns |-> t.columns,
     data |-> SelectSeq(t.data, LAMBDA row : row.EP_LIST = ep)]

\* lines 72-77: the row of the episode ep, whose deduplicated rows are sub
EpisodeRow(ep, sub, col_status_conc, col_status_rig) ==
    [Episodio |-> ep,
     Qtd |-> Len(sub.data),
     Concept |-> CountDone(sub, <<col_status_conc>>),
     Rig |-> CountDone(sub, <<col_status_rig>>),
     Ambos |-> CountDone(sub, <<col_status_conc, col_status_rig>>),
     PctAmbos |-> _pct(CountDone(sub, <<col_status_conc, col_status_rig>>),
                       Len(sub.data))]

\* every episode counts its rows without removing the duplicates
episode_completion_nodedup(t, col_status_conc, col_status_rig, id_col,
                           name_col) ==
    LET eps == sorted({t.data[k].EP_LIST : k \in 1..Len(t.data)})
        rows == [i \in 1..Len(eps) |->
                    EpisodeRow(eps[i], EpisodeGroup(t, eps[i]),
                               col_status_conc, col_status_rig)]
    IN  IF rows = <<>> THEN Failure("KeyError") ELSE Value(rows)

\* episode_completion over a table built by build_base_exp, which always has
\* the column __EP_LIST__: the groups come in the order of their episode,
\* each one deduplicated by _dedup_df; DataFrame(rows) of no row has no
\* column, and sort_values('Episódio') then raises KeyError
episode_completion(t, col_status_conc, col_status_rig, id_col, name_col) ==
    LET eps == sorted({t.data[k].EP_LIST : k \in 1..Len(t.data)})
        rows == [i \in 1..Len(eps) |->
                    EpisodeRow(eps[i],
                               _dedup_df(EpisodeGroup(t, eps[i]), id_col,
                                         name_col),
                               col_status_conc, col_status_rig)]
    IN  IF rows = <<>> THEN Failure("KeyError") ELSE Value(rows)

(* Specification of a run of the script up to the statistics tab, with the *)
(* search box and the "only pending" box of the sidebar as inputs; the     *)
(* other filters are left empty.                                           *)

MaxEpisodeRows == 2

EpisodeRecord(id, nm, ep, st_c, st_r) ==
    ListRecord(id, nm, ep, st_c, st_r, <<>>, <<>>)

EpisodeRecords ==
    { EpisodeRecord(<<"S", "V", "B", "_", "A", "N", "A">>, <<"A", "n", "a">>, <<"1">>,
                    Concluido, Concluido),
      EpisodeRecord(<<"S", "V", "B", "_", "A", "N", "A">>, <<"A", "N", "A">>, <<"1", ",", " ", "2">>,
                    EmAndamento, Concluido),
      EpisodeRecord(<<>>, <<"B", "i", "a">>, <<"2">>, Concluido, EmAndamento),
      EpisodeRecord(<<"S", "V", "B", "_", "E", "V", "A">>, <<"E", "v", "a">>, <<"T", "o", "d", "o", "s">>,
                    Concluido, Concluido),
      EpisodeRecord(<<"S", "V", "B", "_", "B", "I", "A">>, <<"B", "i", "a">>, <<>>,
                    EmAndamento, EmAndamento) }

EpisodeCsvFiles ==
    {CsvFile(CanonicalLayout, FALSE, recs) :
        recs \in UNION {Records(EpisodeRecords, n) : n \in 1..MaxEpisodeRows}}

\* texts of the search box
SearchBoxTexts == {<<>>, <<"A", "n", "a">>, <<"z", "z">>}

InitEpisodes ==
    /\ pc = "start"
    /\ csv \in EpisodeCsvFiles
    /\ df = NoTable
    /\ all_eps = <<>>
    /\ base_exp = NoTable
    /\ exc = ""
    /\ TextIdle
    /\ ListIdle
    /\ ImgIdle
    /\ StatsIdle

\* app.py 763-790, with q the text of the search box and only_pending the
\* state of the check box
FilteredExp(t, q, only_pending) ==
    LET q_norm == SearchKey(q)
        found == IF q_norm # <<>>
                 THEN SelectSeq(t.data,
                          LAMBDA row : \/ Contains(row.name_norm, q_norm)
                                       \/ Contains(row.id_norm, q_norm))
                 ELSE t.data
    IN  [columns |-> t.columns,
         data |-> IF only_pending
                  THEN SelectSeq(found, LAMBDA row : ~row.ok_both)
                  ELSE found]

ApplyFilters ==
    /\ pc = "exploded"
    /\ \E q \in SearchBoxTexts, only_pending \in BOOLEAN :
          exp' = FilteredExp(base_exp, q, only_pending)
    /\ pc' = "filtered"
    /\ UNCHANGED <<ov, ep_df, exc, textVars, loadVars, listVars, imgVars>>

\* app.py 966-980: the statistics tab
TabStats ==
    /\ pc = "filtered"
    /\ ov' = overall_stats(df, COL_STATUS_CONCEPT, COL_STATUS_RIG,
                           COL_FILE_ID, COL_NAME)
    /\ LET res == episode_completion(exp, COL_STATUS_CONCEPT, COL_STATUS_RIG,
                                     COL_FILE_ID, COL_NAME)
       IN  IF res.exc # ""
           THEN /\ pc' = "crashed"
                /\ exc' = res.exc
                /\ UNCHANGED ep_df
           ELSE /\ pc' = "stats"
                /\ ep_df' = res.value
                /\ UNCHANGED exc
    /\ UNCHANGED <<exp, textVars, loadVars, listVars, imgVars>>

NextEpisodes ==
    \/ LoadDataframe
    \/ DetectEpisodes
    \/ BuildBaseExp
    \/ ApplyFilters
    \/ TabStats

SpecEpisodes == InitEpisodes /\ [][NextEpisodes]_vars

(* Claims about the completion by episode                                  *)

\* the identity key of the row k of the filtered table
ExpKey(k) ==
    IF _norm_key(Cell(exp, k, COL_FILE_ID)) # <<>>
    THEN _norm_key(Cell(exp, k, COL_FILE_ID))
    ELSE _norm_key(Cell(exp, k, COL_NAME))

\* the table of episode_completion has one row per episode of the filtered
\* table, in increasing order, with the number of distinct identity keys of
\* the episode and ordered counts
EpisodeTableOK ==
    /\ {ep_df[i].Episodio : i \in 1..Len(ep_df)}
          = {exp.data[k].EP_LIST : k \in 1..Len(exp.data)}
    /\ \A i \in 1..Len(ep_df) : \A j \in 1..Len(ep_df) :
          i < j => ep_df[i].Episodio < ep_df[j].Episodio
    /\ \A i \in 1..Len(ep_df) :
          /\ ep_df[i].Qtd =
                Cardinality({ExpKey(k) : k \in {n \in 1..Len(exp.data) :
                                exp.data[n].EP_LIST = ep_df[i].Episodio}})
          /\ ep_df[i].Ambos <= ep_df[i].Concept
          /\ ep_df[i].Ambos <= ep_df[i].Rig
          /\ ep_df[i].Concept <= ep_df[i].Qtd
          /\ ep_df[i].Rig <= ep_df[i].Qtd

\* C29 as stated: for every filtered table the statistics tab gets the table
\* of episode_completion, with one row per episode present, sorted, with the
\* distinct keys counted and ordered counts, and no exception is raised, also
\* when the filters leave no row.
C29_AsStated ==
    pc \in {"stats", "crashed"} => (pc = "stats" /\ EpisodeTableOK)

\* the part of C29 that holds: when the filtered table has a row, the table
\* of episode_completion is as stated
C29_NonEmptyTable ==
    (pc \in {"stats", "crashed"} /\ exp.data # <<>>) =>
        (pc = "stats" /\ EpisodeTableOK)

\* two rows of one key in episode 1 are counted once
C29_Witness ==
    /\ pc = "stats"
    /\ Len(ep_df) = 2
    /\ ep_df[1].Qtd = 1
    /\ Cardinality({k \in 1..Len(exp.data) : exp.data[k].EP_LIST = 1}) = 2

\* the filters leave no row and episode_completion raises
C29_EmptyRaises ==
    /\ pc = "crashed"
    /\ exc = "KeyError"
    /\ exp.data = <<>>
    /\ base_exp.data # <<>>

(* Specification of the two completion tests applied to one status value: *)
(* is_concluido, of the dashboard and the statistics, and _status_kind, of *)
(* the list tab.                                                           *)

\* the spellings of every letter of the word
ConcluidoLetters ==
    << {"c", "C"}, {"o", "O"}, {"n", "N"}, {"c", "C"}, {"l", "L"},
       {"u", "U"}, {"i", "I", "i+acute", "I+acute"}, {"d", "D"}, {"o", "O"} >>

\* the word in every case, with and without its accent
ConcluidoSpellings ==
    {<<c1, c2, c3, c4, c5, c6, c7, c8, c9>> :
        c1 \in ConcluidoLetters[1], c2 \in ConcluidoLetters[2],
        c3 \in ConcluidoLetters[3], c4 \in ConcluidoLetters[4],
        c5 \in ConcluidoLetters[5], c6 \in ConcluidoLetters[6],
        c7 \in ConcluidoLetters[7], c8 \in ConcluidoLetters[8],
        c9 \in ConcluidoLetters[9]}

\* texts before and after the word
CompletionPads == {<<>>, <<" ">>}

CompletionTails == {<<>>, <<" ">>, <<"s">>, <<" ", "-">>}

\* the spellings, padded and followed by a tail, the status texts of one
\* word, a missing value and numbers
CompletionValues ==
    {p \o w \o t : p \in CompletionPads, w \in ConcluidoSpellings,
                   t \in CompletionTails}
    \cup StatusTexts(1) \cup {None, NaN, PyInt(0), PyFloat(1)}

InitCompletion ==
    /\ pc = "status"
    /\ txt \in CompletionValues
    /\ epList = <<>>
    /\ key = <<>>
    /\ key2 = <<>>
    /\ status_kind = ""
    /\ exc = ""
    /\ LoadIdle
    /\ ListIdle
    /\ ImgIdle
    /\ StatsIdle

\* app.py 111 and list_tab.py 43-57 on the same value: key is the text that
\* is_concluido compares and key2 the text that _status_kind searches; a
\* value that is not a text and is not falsy has no strip() (app.py 98)
CompletionTests ==
    /\ pc = "status"
    /\ IF txt = NaN \/ (IsNumber(txt) /\ ~Falsy(txt))
       THEN /\ pc' = "crashed"
            /\ exc' = "AttributeError"
            /\ UNCHANGED <<key, key2, status_kind>>
       ELSE /\ key' = _normalize_text(txt)
            /\ key2' = _norm(txt)
            /\ status_kind' = _status_kind(txt)
            /\ pc' = "tested"
            /\ UNCHANGED exc
    /\ UNCHANGED <<txt, epList, loadVars, listVars, imgVars, statsVars>>

NextCompletion == CompletionTests

SpecCompletion == InitCompletion /\ [][NextCompletion]_vars

(* Claims about the two completion tests                                   *)

\* the kinds for which build_open_tasks makes a row (list_tab.py 318, 333)
OpenKinds == {"wip", "review", "todo"}

\* C30: every status value for which is_concluido holds is classified as
\* done by _status_kind, so the stage has no open task row.
C30_ConcluidoIsDone ==
    (pc = "tested" /\ is_concluido(txt)) =>
        (status_kind = "done" /\ status_kind \notin OpenKinds)

\* the word in capitals with its accent, after a blank and before a blank,
\* passes both tests
C30_Witness ==
    /\ pc = "tested"
    /\ txt = <<" ", "C", "O", "N", "C", "L", "U", "I+acute", "D", "O", " ">>
    /\ is_concluido(txt)
    /\ Str(key2) = "concluido"
    /\ status_kind = "done"

\* a text that is done for the list tab and not concluded for the statistics
C30_NotConverse ==
    /\ pc = "tested"
    /\ ~is_concluido(txt)
    /\ status_kind = "done"

====
